---- MODULE Spec2Model ----
(***************************************************************************)
(* A model of the audio stream-processing core of celeste-sinead/voice:    *)
(* the per-channel ring buffer (SampleBuffer), the windowing layer on top  *)
(* of it (PeriodBuffer / Period) and the threads that move frames and      *)
(* messages through bounded channels (capture callback, Executor,          *)
(* consumer, playback).                                                    *)
(***************************************************************************)
EXTENDS Integers, Sequences, FiniteSets, TLC

\* ------------------------------------------------------------------------
\* Bounds of the model
\* ------------------------------------------------------------------------

\* Largest max_len a SampleBuffer is constructed with (0 is included).
MaxLen == 3
\* Largest channel count.
MaxChannels == 2
\* Spare capacity the allocator may hand a ring beyond reserve_exact(max_len).
ExtraCap == 1
\* Largest number of interleaved samples in one pushed frame.
MaxFrameSamples == 4
\* Pushing stops once sample_count reaches this many samples per channel.
MaxSamples == 7
\* Largest period_len and period_stride a PeriodBuffer is constructed with.
MaxPeriodLen == 3
MaxStride == 2
\* next() is not called again once this many periods were returned.
MaxPeriods == 6
\* Capacity of the capture frame channel and of the consumer message channel
\* (CHANNEL_MAX is 16 in the source; the model runs it scaled down).
CHANNEL_MAX == 3
\* The capture callback offers at most this many frames to an open channel.
MaxFrames == 6
\* Largest number of samples per channel in one capture callback buffer.
MaxCbSamples == 3
\* The Executor's window length and stride (8192 in the source), scaled.
ExecPeriodLen == 2
\* The consumer stops receiving once update() saw this many closed messages.
MaxClosedObserved == 2
\* Playback: frames pushed, samples per frame, samples per callback buffer.
MaxOutFrames == 5
MaxOutFrameLen == 2
MaxDst == 2
\* Pipeline: items the source holds, outputs a step yields for one item,
\* pushes the sink may be set to reject, ticks.
MaxItems == 2
MaxStepOutputs == 3
MaxPushes == 4
MaxTicks == 4
\* Phases are whole multiples of PI / HalfTurn, between -MaxPhase and
\* MaxPhase of them; unwrap_phase is given at most MaxUnwrapLen bins and is
\* applied at most MaxUnwraps times.
HalfTurn == 2
MaxPhase == 7
MaxUnwrapLen == 3
MaxUnwraps == 2
\* into_folded is given at most MaxBins bins with magnitudes 1..MaxMag.
MaxBins == 5
MaxMag == 2
\* FrameAccumulator: largest frame length, calls of process, calls of
\* with_frame_len.
MaxAccFrameLen == 4
MaxAccCalls == 8
MaxReconfigs == 1

\* IteratorInput on its own: samples of the finite iterator, frame length,
\* and calls of next / try_next.
MaxIterSamples == 5
MaxIterFrameLen == 3
MaxIterCalls == 5

\* PipelineExecutor on its own: commands the UI sends.
MaxCmds == 2

\* ------------------------------------------------------------------------
\* Program constants
\* ------------------------------------------------------------------------

\* Capacity of the playback frame channel.
MAX_FRAME_QUEUE_LEN == 4
\* Capacity of the channel between the subscription and the event loop.
SUBSCRIPTION_MAX == 4

\* ------------------------------------------------------------------------
\* State
\* ------------------------------------------------------------------------

VARIABLES
    stage,             \* "buffer": a bare SampleBuffer; "periods": wrapped in a PeriodBuffer
    periods,           \* the PeriodBuffer (its .buffer is the SampleBuffer)
    period,            \* the live Period borrowed from the buffer, or NoPeriod
    slices,            \* the result of the last get_channel on the live Period, or NoSlices
    panicked,          \* "no", or the assertion / check that aborted the thread
    last_op,           \* the last operation and what it returned
    periods_returned,  \* number of Some(period) results of next() so far
    buf_log,           \* what the buffer's caller did: frames pushed, periods obtained
    \* --- the programs built on the library ---
    app,               \* "lib" (the buffer on its own), "analyzer" or "synth"
    cb_samples,        \* samples per channel in each capture callback buffer
    frames,            \* capture channel: the queued frames (their numbers)
    frame_count,       \* capture callback invocations so far (number of the next frame)
    dropped,           \* numbers of the frames the capture callback dropped
    last_cb,           \* result of the last capture callback's try_send
    input_open,        \* the capture stream (and its Sender) is alive
    exec_pc,           \* Executor::run: "read", "send", "closing", "done", "panicked"
    out,               \* messages of the current frame not yet sent
    msgs,              \* consumer channel: the queued messages
    msgs_rx_open,      \* the consumer's Receivers are alive
    exec_log,          \* what the Executor did: frames read, messages sent, exit reason
    wav_len,           \* samples appended to the WAV sink
    ui_pc,             \* the consumer: "running", "panicked" (todo!()), "exited"
    sub_alive,         \* the consumer's subscription still polls the channel
    ui_queue,          \* messages the subscription emitted, not yet handled
    emitted,           \* what the subscription has emitted so far
    observed,          \* what update() has been handed so far
    \* --- playback ---
    out_frames,        \* playback channel: the queued Frames (their samples)
    out_tx_open,       \* the OutputDevice's Sender is alive
    out_pushed,        \* frames / samples pushed to the OutputDevice so far
    receiver,          \* FrameReceiver: cur_frame, cur_sample
    last_fill,         \* what the last output callback's fill_buffer did
    played,            \* samples copied into output buffers so far
    \* --- Pipeline ---
    pipe,              \* a Pipeline, its source, step and sink, and its last tick
    \* --- functions of the library applied on their own ---
    dsp,               \* a PolarFFT or the FoldedFFT made of it
    acc,               \* a FrameAccumulator and what its caller saw of it
    \* --- inputs and executors on their own ---
    iter_in,           \* an IteratorInput and what its caller saw of it
    pexec,             \* a PipelineExecutor's loop and its command channel
    draining           \* the push-then-drain loop over a PeriodBuffer

bufVars == <<stage, periods, period, slices, panicked, last_op, periods_returned, buf_log>>

captureVars == <<cb_samples, frames, frame_count, dropped, last_cb, input_open>>
execVars == <<exec_pc, out, msgs, exec_log, wav_len>>
consumerVars == <<msgs_rx_open, ui_pc, sub_alive, ui_queue, emitted, observed>>
playbackVars == <<out_frames, out_tx_open, out_pushed, receiver, last_fill, played>>

moreVars == <<iter_in, pexec, draining>>

calcVars == <<dsp, acc, moreVars>>

threadVars == <<app, captureVars, execVars, consumerVars, playbackVars, pipe, calcVars>>

vars == <<bufVars, threadVars>>

NoPeriod == [start_sample_num |-> -1, len |-> -1]
NoSlices == [channel |-> -1, s0 |-> <<>>, s1 |-> <<>>, where |-> "none"]
\* The caller's record before any call: samples per channel in the frames
\* push accepted, the frame handed to push when push was the last call, the
\* start_sample_num of every Period next() returned.
NoCalls == [pushed |-> 0,
            frame |-> [channels |-> 0, sample_rate |-> 0, len |-> 0],
            starts |-> <<>>]
Uninit == -1

SampleRates == {44100, 48000}

Min(a, b) == IF a < b THEN a ELSE b

\* ------------------------------------------------------------------------
\* std::collections::VecDeque<f32> as the buffer uses it: a physical array
\* of `cap` cells, the index `head` of the oldest element and `len`.
\* ------------------------------------------------------------------------

VecDeque_new(cap) ==
    [cap |-> cap, head |-> 0, len |-> 0, buf |-> [i \in 1..cap |-> Uninit]]

VecDeque_pop_front(d) ==
    IF d.len = 0 THEN d
    ELSE [d EXCEPT !.head = (d.head + 1) % d.cap, !.len = d.len - 1]

\* A full deque grows before push_back: capacity doubles (at least 4 cells)
\* and a wrapped content is made contiguous again in ring order.
VecDeque_grow(d) ==
    LET ncap == IF 2 * d.cap > 4 THEN 2 * d.cap ELSE 4
        wide == [i \in 1..ncap |-> IF i <= d.cap THEN d.buf[i] ELSE Uninit]
        head_len == d.cap - d.head
        tail_len == d.len - head_len
    IN  IF d.head <= d.cap - d.len
        THEN [d EXCEPT !.cap = ncap, !.buf = wide]
        ELSE IF head_len > tail_len /\ ncap - d.cap >= tail_len
        THEN [d EXCEPT !.cap = ncap,
                       !.buf = [i \in 1..ncap |->
                                  IF i > d.cap /\ i <= d.cap + tail_len
                                  THEN d.buf[i - d.cap] ELSE wide[i]]]
        ELSE [d EXCEPT !.cap = ncap,
                       !.head = ncap - head_len,
                       !.buf = [i \in 1..ncap |->
                                  IF i > ncap - head_len
                                  THEN d.buf[d.head + (i - (ncap - head_len))]
                                  ELSE wide[i]]]

VecDeque_push_back(d, v) ==
    LET g == IF d.len = d.cap THEN VecDeque_grow(d) ELSE d
    IN  [g EXCEPT !.buf[((g.head + g.len) % g.cap) + 1] = v, !.len = g.len + 1]

\* as_slices(): the content as (first_segment, second_segment); the second
\* is non-empty exactly when the content wraps past the end of the array.
as_slices(d) ==
    IF d.len = 0 THEN << <<>>, <<>> >>
    ELSE IF d.head + d.len <= d.cap
    THEN << SubSeq(d.buf, d.head + 1, d.head + d.len), <<>> >>
    ELSE << SubSeq(d.buf, d.head + 1, d.cap), SubSeq(d.buf, 1, d.head + d.len - d.cap) >>

\* ------------------------------------------------------------------------
\* SampleBuffer
\* ------------------------------------------------------------------------

SampleBuffer_new(channels, sample_rate, max_len, cap) ==
    [max_len |-> max_len, channels |-> channels, sample_rate |-> sample_rate,
     buffers |-> [ch \in 0..(channels - 1) |-> VecDeque_new(cap)],
     sample_count |-> 0]

\* A de-interlacing loop that takes the channel from the 1-based position.
RECURSIVE Deinterlace_from_one(_, _, _, _, _)
Deinterlace_from_one(buffers, samples, i, channels, max_len) ==
    IF i > Len(samples) THEN buffers
    ELSE LET ch == i % channels
             d0 == buffers[ch]
             d1 == IF d0.len = max_len THEN VecDeque_pop_front(d0) ELSE d0
             d2 == VecDeque_push_back(d1, samples[i])
         IN  Deinterlace_from_one([buffers EXCEPT ![ch] = d2], samples, i + 1, channels, max_len)

\* The de-interlacing loop of push, from sample i (1-based) of the frame on.
RECURSIVE Deinterlace(_, _, _, _, _)
Deinterlace(buffers, samples, i, channels, max_len) ==
    IF i > Len(samples) THEN buffers
    ELSE LET ch == (i - 1) % channels
             d0 == buffers[ch]
             d1 == IF d0.len = max_len THEN VecDeque_pop_front(d0) ELSE d0
             d2 == VecDeque_push_back(d1, samples[i])
         IN  Deinterlace([buffers EXCEPT ![ch] = d2], samples, i + 1, channels, max_len)

\* Mutant of PushAccepts: the length of the frame is not checked.
PushAccepts_any_length(sb, f) ==
    /\ f.channels = sb.channels
    /\ f.sample_rate = sb.sample_rate

\* The three assertions at the head of push.
PushAccepts(sb, f) ==
    /\ f.channels = sb.channels
    /\ f.sample_rate = sb.sample_rate
    /\ Len(f.samples) % sb.channels = 0

\* Mutant of SampleBuffer_push: sample_count stops at the ring's capacity.
SampleBuffer_push_capped(sb, f) ==
    [sb EXCEPT !.sample_count =
                   IF sb.sample_count + (Len(f.samples) \div sb.channels) < sb.max_len
                   THEN sb.sample_count + (Len(f.samples) \div sb.channels)
                   ELSE sb.max_len,
               !.buffers = Deinterlace(sb.buffers, f.samples, 1, sb.channels, sb.max_len)]

SampleBuffer_push(sb, f) ==
    [sb EXCEPT !.sample_count = sb.sample_count + (Len(f.samples) \div sb.channels),
               !.buffers = Deinterlace(sb.buffers, f.samples, 1, sb.channels, sb.max_len)]

\* Mutant of SampleBuffer_len: the count of samples ever pushed.
SampleBuffer_len_unbounded(sb) == sb.sample_count

SampleBuffer_len(sb) == Min(sb.sample_count, sb.max_len)

\* Mutant of oldest_sample_index: the oldest retained sample is taken to be
\* one later than it is.
oldest_sample_index_late(sb) == sb.sample_count - SampleBuffer_len(sb) + 1

oldest_sample_index(sb) == sb.sample_count - SampleBuffer_len(sb)

\* ------------------------------------------------------------------------
\* Period::get_channel
\* ------------------------------------------------------------------------

\* Whether get_channel returns: the checked_sub succeeds and every slice
\* index is within its segment.
GetChannelOk(sb, p, channel) ==
    LET segs == as_slices(sb.buffers[channel])
        first_len == Len(segs[1])
        second_len == Len(segs[2])
        len_to_buffer_end == sb.sample_count - p.start_sample_num
        start == SampleBuffer_len(sb) - len_to_buffer_end
        end == start + p.len
    IN  /\ len_to_buffer_end >= 0
        /\ start >= 0
        /\ IF start < first_len
           THEN end <= first_len \/ end - first_len <= second_len
           ELSE /\ start - first_len <= end - first_len
                /\ end - first_len <= second_len

\* Mutant of get_channel: a window wholly in the second segment is
\* returned as slice 1.
get_channel_second_late(sb, p, channel) ==
    LET segs == as_slices(sb.buffers[channel])
        first_segment == segs[1]
        second_segment == segs[2]
        len_to_buffer_end == sb.sample_count - p.start_sample_num
        start == SampleBuffer_len(sb) - len_to_buffer_end
        end == start + p.len
    IN  IF start < Len(first_segment)
        THEN IF end <= Len(first_segment)
             THEN [channel |-> channel, where |-> "first",
                   s0 |-> SubSeq(first_segment, start + 1, end), s1 |-> <<>>]
             ELSE [channel |-> channel, where |-> "split",
                   s0 |-> SubSeq(first_segment, start + 1, Len(first_segment)),
                   s1 |-> SubSeq(second_segment, 1, end - Len(first_segment))]
        ELSE [channel |-> channel, where |-> "second",
              s0 |-> <<>>,
              s1 |-> SubSeq(second_segment, start - Len(first_segment) + 1,
                            end - Len(first_segment))]

\* Mutant of get_channel: a straddling window is returned with its two parts
\* in the wrong order.
get_channel_swapped(sb, p, channel) ==
    LET segs == as_slices(sb.buffers[channel])
        first_segment == segs[1]
        second_segment == segs[2]
        len_to_buffer_end == sb.sample_count - p.start_sample_num
        start == SampleBuffer_len(sb) - len_to_buffer_end
        end == start + p.len
    IN  IF start < Len(first_segment)
        THEN IF end <= Len(first_segment)
             THEN [channel |-> channel, where |-> "first",
                   s0 |-> SubSeq(first_segment, start + 1, end), s1 |-> <<>>]
             ELSE [channel |-> channel, where |-> "split",
                   s0 |-> SubSeq(second_segment, 1, end - Len(first_segment)),
                   s1 |-> SubSeq(first_segment, start + 1, Len(first_segment))]
        ELSE [channel |-> channel, where |-> "second",
              s0 |-> SubSeq(second_segment, start - Len(first_segment) + 1,
                            end - Len(first_segment)),
              s1 |-> <<>>]

get_channel(sb, p, channel) ==
    LET segs == as_slices(sb.buffers[channel])
        first_segment == segs[1]
        second_segment == segs[2]
        len_to_buffer_end == sb.sample_count - p.start_sample_num
        start == SampleBuffer_len(sb) - len_to_buffer_end
        end == start + p.len
    IN  IF start < Len(first_segment)
        THEN IF end <= Len(first_segment)
             THEN [channel |-> channel, where |-> "first",
                   s0 |-> SubSeq(first_segment, start + 1, end), s1 |-> <<>>]
             ELSE [channel |-> channel, where |-> "split",
                   s0 |-> SubSeq(first_segment, start + 1, Len(first_segment)),
                   s1 |-> SubSeq(second_segment, 1, end - Len(first_segment))]
        ELSE [channel |-> channel, where |-> "second",
              s0 |-> SubSeq(second_segment, start - Len(first_segment) + 1,
                            end - Len(first_segment)),
              s1 |-> <<>>]

\* ------------------------------------------------------------------------
\* PeriodBuffer
\* ------------------------------------------------------------------------

PeriodBuffer_new(buffer, period_len, period_stride) ==
    [buffer |-> buffer, period_len |-> period_len, period_stride |-> period_stride,
     next_period_end |-> period_len]

\* Mutant of RetentionHolds: the assertion compares the end of the pending
\* period, not its start, with the oldest retained sample.
RetentionHolds_end(pb) ==
    pb.next_period_end >= oldest_sample_index(pb.buffer)

\* The retention assertion at the end of PeriodBuffer::push.
RetentionHolds(pb) ==
    pb.next_period_end - pb.period_len >= oldest_sample_index(pb.buffer)

\* Mutant of has_next: a period that ends exactly at the newest sample is
\* not yet available.
has_next_strict(pb) == pb.next_period_end < pb.buffer.sample_count

has_next(pb) == pb.next_period_end <= pb.buffer.sample_count

\* The Period that next() builds, and the buffer next() leaves behind.
NextPeriod(pb) ==
    [start_sample_num |-> pb.next_period_end - pb.period_len, len |-> pb.period_len]

\* Mutant of AdvancePeriod: the window advances by its length, not its stride.
AdvancePeriod_by_len(pb) ==
    [pb EXCEPT !.next_period_end = pb.next_period_end + pb.period_len]

\* Mutant of AdvancePeriod: the window advances one sample too far.
AdvancePeriod_skip(pb) ==
    [pb EXCEPT !.next_period_end = pb.next_period_end + pb.period_stride + 1]

AdvancePeriod(pb) ==
    [pb EXCEPT !.next_period_end = pb.next_period_end + pb.period_stride]

\* ------------------------------------------------------------------------
\* The frames a caller pushes: sample i of the frame is sample
\* (sample_count + i div channels) of channel (i mod channels) of the
\* stream, and is given the value that names it.
\* ------------------------------------------------------------------------

Stamp(channel, n, channels) == n * channels + channel

FrameOf(sb, fchannels, frate, n) ==
    [channels |-> fchannels, sample_rate |-> frate,
     samples |-> [i \in 1..n |-> sb.sample_count * sb.channels + (i - 1)]]

\* ------------------------------------------------------------------------
\* The state of the threads and channels before anything ran
\* ------------------------------------------------------------------------

NoFrame == [channels |-> -1, sample_rate |-> -1, first |-> -1, len |-> -1]

FrameReceiver_new(channels, sample_rate) ==
    [channels |-> channels, sample_rate |-> sample_rate,
     cur_frame |-> NoFrame, cur_sample |-> -1, alive |-> TRUE]

NoTick == [ret |-> "none", item |-> 0, yielded |-> <<>>]

Pipeline_new(step, input_len, fail_at) ==
    [step |-> step, input_len |-> input_len, fail_at |-> fail_at,
     ticks |-> 0, reads |-> 0, read_attempts |-> 0, step_calls |-> 0,
     pushes |-> 0, attempted |-> <<>>, sink |-> <<>>, last |-> NoTick]

NoPipeline == Pipeline_new("none", 0, {})

\* No spectrum: kind is "polar" for a PolarFFT and "folded" for a FoldedFFT;
\* given is the PolarFFT as constructed, once its values after the first
\* unwrap_phase, src the values into_folded was applied to.
NoFFT == [kind |-> "none", values |-> <<>>, unfolded_length |-> 0,
          unwraps |-> 0, given |-> <<>>, once |-> <<>>, src |-> <<>>]

\* No Frame returned (None), and no FrameAccumulator.
NoneFrame == [some |-> FALSE, channels |-> 0, sample_rate |-> 0, samples |-> <<>>]
NoAccumulator ==
    [fa |-> [channels |-> 0, sample_rate |-> 0, frame_len |-> 0, samples |-> <<>>],
     calls |-> 0, since |-> 0, reconfigs |-> 0, last |-> NoneFrame,
     delivered |-> <<>>, panicked |-> FALSE]

\* No IteratorInput was built.
NoIterator ==
    [iter |-> <<>>, sample_rate |-> 0, frame_len |-> 0, total |-> 0, log |-> <<>>]

\* The inputs and executors that run on their own, before they are built.
\* No PipelineExecutor was spawned.
NoPipelineExecutor ==
    [pc |-> "none", cmds |-> <<>>, tx_open |-> FALSE, sent |-> 0, applied |-> <<>>]

\* No push-then-drain loop runs; largest is the largest number of samples
\* per channel a frame it pushed had.
NoDraining == [pc |-> "none", largest |-> 0]

MoreInit ==
    iter_in = NoIterator /\ pexec = NoPipelineExecutor /\ draining = NoDraining

NoLog == [reads |-> 0, last_read |-> -1, data_sent |-> 0, closed_sent |-> 0,
          closed_attempts |-> 0, exit |-> "none"]
NoneObserved == [data |-> 0, closed |-> 0, after_closed |-> 0,
                 last |-> [kind |-> "none", start |-> -1]]
NoFill == [ret |-> "none", satisfied |-> 0, want |-> 0, data |-> <<>>, left |-> 0,
           tx_open |-> TRUE]

ThreadsInit(channels, sample_rate) ==
    /\ frames = <<>>
    /\ frame_count = 0
    /\ dropped = {}
    /\ last_cb = "none"
    /\ input_open = TRUE
    /\ exec_pc = "read"
    /\ out = <<>>
    /\ msgs = <<>>
    /\ msgs_rx_open = TRUE
    /\ exec_log = NoLog
    /\ wav_len = 0
    /\ ui_pc = "running"
    /\ sub_alive = TRUE
    /\ ui_queue = <<>>
    /\ emitted = NoneObserved
    /\ observed = NoneObserved
    /\ out_frames = <<>>
    /\ out_tx_open = TRUE
    /\ out_pushed = [frames |-> 0, samples |-> 0]
    /\ receiver = FrameReceiver_new(channels, sample_rate)
    /\ last_fill = NoFill
    /\ played = 0
    /\ pipe = NoPipeline
    /\ dsp = NoFFT
    /\ acc = NoAccumulator
    /\ MoreInit

\* ------------------------------------------------------------------------
\* Operations on the buffer
\* ------------------------------------------------------------------------

\* The caller's record after a call that is not push.
Returned(log) == [log EXCEPT !.frame = NoCalls.frame]

\* The caller's record after handing frame f to push; accepted: the three
\* assertions at the head of push let the frame through.
Called(log, f, accepted) ==
    [log EXCEPT !.frame = [channels |-> f.channels, sample_rate |-> f.sample_rate,
                           len |-> Len(f.samples)],
                !.pushed = IF accepted THEN @ + (Len(f.samples) \div f.channels) ELSE @]

Init ==
    /\ stage = "buffer"
    /\ \E channels \in 1..MaxChannels, max_len \in 0..MaxLen, extra \in 0..ExtraCap,
          period_len \in 0..MaxPeriodLen, period_stride \in 0..MaxStride,
          sample_rate \in {44100} :
          periods = PeriodBuffer_new(
                        SampleBuffer_new(channels, sample_rate, max_len, max_len + extra),
                        period_len, period_stride)
    /\ period = NoPeriod
    /\ slices = NoSlices
    /\ panicked = "no"
    /\ last_op = [op |-> "new", ret |-> "ok"]
    /\ periods_returned = 0
    /\ buf_log = NoCalls
    /\ app = "lib"
    /\ cb_samples = 1
    /\ ThreadsInit(1, 1)

\* SampleBuffer::push on a buffer not (yet) owned by a PeriodBuffer.
SBPush(fchannels, frate, n) ==
    LET f == FrameOf(periods.buffer, fchannels, frate, n) IN
    /\ stage = "buffer" /\ panicked = "no"
    /\ periods.buffer.sample_count + (n \div periods.buffer.channels) <= MaxSamples
    /\ IF PushAccepts(periods.buffer, f)
       THEN /\ periods' = [periods EXCEPT !.buffer = SampleBuffer_push(periods.buffer, f)]
            /\ panicked' = "no"
            /\ last_op' = [op |-> "push", ret |-> "ok"]
       ELSE /\ periods' = periods
            /\ panicked' = "push_assert"
            /\ last_op' = [op |-> "push", ret |-> "panic"]
    /\ buf_log' = Called(buf_log, f, panicked' # "push_assert")
    /\ UNCHANGED <<stage, period, slices, periods_returned, threadVars>>

\* PeriodBuffer::new taking ownership of the buffer.
PBNew ==
    /\ stage = "buffer" /\ panicked = "no"
    /\ IF periods.buffer.sample_count <= periods.buffer.max_len
       THEN /\ stage' = "periods"
            /\ panicked' = "no"
            /\ last_op' = [op |-> "new", ret |-> "ok"]
       ELSE /\ stage' = stage
            /\ panicked' = "new_assert"
            /\ last_op' = [op |-> "new", ret |-> "panic"]
    /\ buf_log' = Returned(buf_log)
    /\ UNCHANGED <<periods, period, slices, periods_returned, threadVars>>

\* PeriodBuffer::push. It needs &mut self, so no Period is alive.
PBPush(fchannels, frate, n) ==
    LET f == FrameOf(periods.buffer, fchannels, frate, n)
        pushed == [periods EXCEPT !.buffer = SampleBuffer_push(periods.buffer, f)]
    IN
    /\ stage = "periods" /\ panicked = "no" /\ period = NoPeriod
    /\ periods.buffer.sample_count + (n \div periods.buffer.channels) <= MaxSamples
    /\ IF ~PushAccepts(periods.buffer, f)
       THEN /\ periods' = periods
            /\ panicked' = "push_assert"
            /\ last_op' = [op |-> "push", ret |-> "panic"]
       ELSE /\ periods' = pushed
            /\ IF RetentionHolds(pushed)
               THEN /\ panicked' = "no"
                    /\ last_op' = [op |-> "push", ret |-> "ok"]
               ELSE /\ panicked' = "retention_assert"
                    /\ last_op' = [op |-> "push", ret |-> "panic"]
    /\ buf_log' = Called(buf_log, f, panicked' # "push_assert")
    /\ UNCHANGED <<stage, period, slices, periods_returned, threadVars>>

\* PeriodBuffer::next. It needs &mut self too.
PBNext ==
    /\ stage = "periods" /\ panicked = "no" /\ period = NoPeriod
    /\ periods_returned < MaxPeriods
    /\ IF has_next(periods)
       THEN /\ period' = NextPeriod(periods)
            /\ periods' = AdvancePeriod(periods)
            /\ periods_returned' = periods_returned + 1
            /\ buf_log' = [Returned(buf_log) EXCEPT
                               !.starts = Append(@, period'.start_sample_num)]
            /\ last_op' = [op |-> "next", ret |-> "Some"]
       ELSE /\ UNCHANGED <<period, periods, periods_returned>>
            /\ buf_log' = Returned(buf_log)
            /\ last_op' = [op |-> "next", ret |-> "None"]
    /\ UNCHANGED <<stage, slices, panicked, threadVars>>

\* Period::get_channel on the live Period.
GetChannel(channel) ==
    /\ stage = "periods" /\ panicked = "no" /\ period # NoPeriod
    /\ IF GetChannelOk(periods.buffer, period, channel)
       THEN /\ slices' = get_channel(periods.buffer, period, channel)
            /\ panicked' = "no"
            /\ last_op' = [op |-> "get_channel", ret |-> "ok"]
       ELSE /\ slices' = NoSlices
            /\ panicked' = "get_channel"
            /\ last_op' = [op |-> "get_channel", ret |-> "panic"]
    /\ buf_log' = Returned(buf_log)
    /\ UNCHANGED <<stage, periods, period, periods_returned, threadVars>>

\* The Period goes out of scope.
DropPeriod ==
    /\ stage = "periods" /\ panicked = "no" /\ period # NoPeriod
    /\ period' = NoPeriod
    /\ slices' = NoSlices
    /\ last_op' = [op |-> "drop", ret |-> "ok"]
    /\ buf_log' = Returned(buf_log)
    /\ UNCHANGED <<stage, periods, panicked, periods_returned, threadVars>>

Next ==
    \/ \E fchannels \in 1..MaxChannels, frate \in SampleRates, n \in 0..MaxFrameSamples :
          SBPush(fchannels, frate, n)
    \/ PBNew
    \/ \E fchannels \in 1..MaxChannels, frate \in SampleRates, n \in 0..MaxFrameSamples :
          PBPush(fchannels, frate, n)
    \/ PBNext
    \/ \E channel \in 0..(periods.buffer.channels - 1) : GetChannel(channel)
    \/ DropPeriod

Spec == Init /\ [][Next]_vars

\* ------------------------------------------------------------------------
\* Period::get_channel on any window of the stream: a Period is built over
\* a SampleBuffer for samples start .. start+len-1 that were pushed, and
\* may refer to samples the rings no longer hold. The buffer is borrowed
\* while the Period lives, so nothing is pushed meanwhile.
\* ------------------------------------------------------------------------

InitPeriod ==
    /\ stage = "buffer"
    /\ \E channels \in 1..MaxChannels, max_len \in 0..MaxLen, extra \in 0..ExtraCap :
          periods = PeriodBuffer_new(
                        SampleBuffer_new(channels, 44100, max_len, max_len + extra), 1, 1)
    /\ period = NoPeriod
    /\ slices = NoSlices
    /\ panicked = "no"
    /\ last_op = [op |-> "new", ret |-> "ok"]
    /\ periods_returned = 0
    /\ buf_log = NoCalls
    /\ app = "period"
    /\ cb_samples = 1
    /\ ThreadsInit(1, 1)

\* SampleBuffer::push while no Period borrows the buffer.
PushUnborrowed(n) ==
    /\ app = "period" /\ period = NoPeriod
    /\ SBPush(periods.buffer.channels, periods.buffer.sample_rate, n)

\* Period { buffer, start_sample_num, len } over samples that were pushed.
PeriodOver(start, len) ==
    /\ app = "period" /\ panicked = "no" /\ period = NoPeriod
    /\ start + len <= periods.buffer.sample_count
    /\ period' = [start_sample_num |-> start, len |-> len]
    /\ last_op' = [op |-> "period", ret |-> "ok"]
    /\ buf_log' = Returned(buf_log)
    /\ UNCHANGED <<stage, periods, slices, panicked, periods_returned, threadVars>>

\* Period::get_channel on that Period.
PeriodGetChannel(channel) ==
    /\ app = "period" /\ panicked = "no" /\ period # NoPeriod
    /\ IF GetChannelOk(periods.buffer, period, channel)
       THEN /\ slices' = get_channel(periods.buffer, period, channel)
            /\ panicked' = "no"
            /\ last_op' = [op |-> "get_channel", ret |-> "ok"]
       ELSE /\ slices' = NoSlices
            /\ panicked' = "get_channel"
            /\ last_op' = [op |-> "get_channel", ret |-> "panic"]
    /\ buf_log' = Returned(buf_log)
    /\ UNCHANGED <<stage, periods, period, periods_returned, threadVars>>

\* The Period goes out of scope.
PeriodDrop ==
    /\ app = "period" /\ panicked = "no" /\ period # NoPeriod
    /\ period' = NoPeriod
    /\ slices' = NoSlices
    /\ last_op' = [op |-> "drop", ret |-> "ok"]
    /\ buf_log' = Returned(buf_log)
    /\ UNCHANGED <<stage, periods, panicked, periods_returned, threadVars>>

NextPeriodCalls ==
    \/ \E n \in 0..MaxFrameSamples : PushUnborrowed(n)
    \/ \E start \in 0..MaxSamples, len \in 0..MaxPeriodLen : PeriodOver(start, len)
    \/ \E channel \in 0..(periods.buffer.channels - 1) : PeriodGetChannel(channel)
    \/ PeriodDrop

SpecPeriod == InitPeriod /\ [][NextPeriodCalls]_vars

\* ------------------------------------------------------------------------
\* async_channel::bounded as the threads use it
\* ------------------------------------------------------------------------

\* Mutant of try_send_result: a full channel accepts the item all the same.
try_send_result_never_full(q, cap, rx_open) ==
    IF ~rx_open THEN "Closed" ELSE "Ok"

\* Sender::try_send: never waits; a closed channel is reported before a full one.
try_send_result(q, cap, rx_open) ==
    IF ~rx_open THEN "Closed"
    ELSE IF Len(q) >= cap THEN "Full"
    ELSE "Ok"

\* Mutant of CanSend: send_blocking never waits for room.
CanSend_always(q, cap) == TRUE

\* Mutant of CanSend: a blocking send never finds room.
CanSend_never(queue, cap) == FALSE

\* Sender::send_blocking on an open channel returns once there is room.
CanSend(q, cap) == Len(q) < cap

\* ------------------------------------------------------------------------
\* The messages of the library (Message, FFTResult, RMSLevels)
\* ------------------------------------------------------------------------

FFTResult(p) ==
    [kind |-> "FFTResult", start |-> p.start_sample_num, len |-> p.len,
     time |-> p.start_sample_num + p.len]

RMSLevelsMsg(p) ==
    [kind |-> "RMSLevels", start |-> p.start_sample_num, len |-> p.len,
     time |-> p.start_sample_num]

AudioStreamClosed == [kind |-> "AudioStreamClosed", start |-> -1, len |-> -1, time |-> -1]

\* ------------------------------------------------------------------------
\* Executor
\* ------------------------------------------------------------------------

ExecSampleRates == {1, 2}
ExecChannelCounts == {1}

Executor_new(channels, sample_rate) ==
    PeriodBuffer_new(
        SampleBuffer_new(channels, sample_rate, sample_rate * 2, sample_rate * 2),
        ExecPeriodLen, ExecPeriodLen)

\* Mutant of Drain: the messages of a later period are put in front.
RECURSIVE Drain_newest_first(_, _)
Drain_newest_first(pb, res) ==
    IF ~has_next(pb) THEN [pb |-> pb, msgs |-> res, panic |-> FALSE]
    ELSE LET p == NextPeriod(pb)
             nb == AdvancePeriod(pb)
         IN  Drain_newest_first(nb, <<FFTResult(p), RMSLevelsMsg(p)>> \o res)

\* Mutant of Drain: `if let` for `while let`, one period per frame at most.
Drain_single(pb, res) ==
    IF ~has_next(pb) THEN [pb |-> pb, msgs |-> res, panic |-> FALSE]
    ELSE [pb |-> AdvancePeriod(pb),
          msgs |-> res \o <<FFTResult(NextPeriod(pb)), RMSLevelsMsg(NextPeriod(pb))>>,
          panic |-> FALSE]

\* The loop `while let Some(p) = self.periods.next()` of process: the
\* buffer and the messages after it, or a panic in get_channel on the way.
RECURSIVE Drain(_, _)
Drain(pb, res) ==
    IF ~has_next(pb) THEN [pb |-> pb, msgs |-> res, panic |-> FALSE]
    ELSE LET p == NextPeriod(pb)
             nb == AdvancePeriod(pb)
         IN  IF \E ch \in 0..(pb.buffer.channels - 1) : ~GetChannelOk(nb.buffer, p, ch)
             THEN [pb |-> nb, msgs |-> res, panic |-> TRUE]
             ELSE Drain(nb, res \o <<FFTResult(p), RMSLevelsMsg(p)>>)

\* Executor::process for the next frame of n samples per channel.
process(pb, n) ==
    LET f == FrameOf(pb.buffer, pb.buffer.channels, pb.buffer.sample_rate,
                     n * pb.buffer.channels)
        pushed == [pb EXCEPT !.buffer = SampleBuffer_push(pb.buffer, f)]
    IN  IF ~PushAccepts(pb.buffer, f) THEN [pb |-> pb, msgs |-> <<>>, panic |-> TRUE]
        ELSE IF ~RetentionHolds(pushed) THEN [pb |-> pushed, msgs |-> <<>>, panic |-> TRUE]
        ELSE Drain(pushed, <<>>)

\* Mutant of after_read_error: the loop is left without the closed message.
after_read_error_return == "done"

\* Executor::run after input.read() returned Err: the closed message is next.
after_read_error == "closing"

\* Mutant of after_send_error: the loop goes on after a failed send.
after_send_error_continue == "read"

\* Executor::run after send_blocking returned Err: `return`.
after_send_error == "done"

\* The Receiver<Frame> lives in the input the Executor thread owns.
frames_rx_open == exec_pc \notin {"done", "panicked"}

\* The Sender<Message> lives in the Executor.
msgs_tx_open == exec_pc \notin {"done", "panicked"}

Analysis == app \in {"capture", "analyzer", "ui"}

\* The capture callback: one try_send of the frame the device produced.
CaptureCallback ==
    LET r == try_send_result(frames, CHANNEL_MAX, frames_rx_open) IN
    /\ Analysis /\ input_open
    /\ frame_count < MaxFrames
    /\ frames' = IF r = "Ok" THEN Append(frames, frame_count) ELSE frames
    /\ dropped' = IF r = "Full" THEN dropped \cup {frame_count} ELSE dropped
    /\ last_cb' = r
    /\ frame_count' = frame_count + 1
    /\ UNCHANGED <<bufVars, app, cb_samples, input_open, execVars, consumerVars, playbackVars, pipe, calcVars>>

\* The capture stream ends: its Sender is dropped (the error callback's
\* todo!() kills the device thread; a generator is exhausted).
DeviceClose ==
    /\ Analysis /\ input_open
    /\ input_open' = FALSE
    /\ UNCHANGED <<bufVars, app, cb_samples, frames, frame_count, dropped, last_cb,
                   execVars, consumerVars, playbackVars, pipe, calcVars>>

\* input.read() returned Ok(f): process(&f), then the first send is next.
ExecRead ==
    LET r == process(periods, cb_samples) IN
    /\ Analysis /\ exec_pc = "read" /\ frames # <<>>
    /\ frames' = Tail(frames)
    /\ periods' = r.pb
    /\ wav_len' = wav_len + cb_samples * periods.buffer.channels
    /\ out' = r.msgs
    /\ exec_pc' = IF r.panic THEN "panicked" ELSE IF r.msgs = <<>> THEN "read" ELSE "send"
    /\ exec_log' = [exec_log EXCEPT !.reads = @ + 1, !.last_read = Head(frames),
                                    !.exit = IF r.panic THEN "panic" ELSE @]
    /\ UNCHANGED <<stage, period, slices, panicked, last_op, periods_returned, buf_log, app,
                   cb_samples, frame_count, dropped, last_cb, input_open, msgs,
                   consumerVars, playbackVars, pipe, calcVars>>

\* input.read() returned Err: the queue is drained and the Sender is gone.
ExecReadErr ==
    /\ Analysis /\ exec_pc = "read" /\ frames = <<>> /\ ~input_open
    /\ exec_pc' = after_read_error
    /\ exec_log' = [exec_log EXCEPT !.exit = "input_closed"]
    /\ UNCHANGED <<bufVars, app, captureVars, out, msgs, wav_len,
                   consumerVars, playbackVars, pipe, calcVars>>

\* `let _e = self.sender.send_blocking(Message::AudioStreamClosed); return;`
ExecSendClosed ==
    /\ Analysis /\ exec_pc = "closing"
    /\ ~msgs_rx_open \/ CanSend(msgs, CHANNEL_MAX)
    /\ msgs' = IF msgs_rx_open THEN Append(msgs, AudioStreamClosed) ELSE msgs
    /\ exec_pc' = "done"
    /\ exec_log' = [exec_log EXCEPT !.closed_attempts = @ + 1,
                                    !.closed_sent = IF msgs_rx_open THEN @ + 1 ELSE @]
    /\ UNCHANGED <<bufVars, app, captureVars, out, wav_len, consumerVars, playbackVars, pipe, calcVars>>

\* self.sender.send_blocking(m) for the next message of the frame.
ExecSend ==
    /\ Analysis /\ exec_pc = "send"
    /\ ~msgs_rx_open \/ CanSend(msgs, CHANNEL_MAX)
    /\ IF msgs_rx_open
       THEN /\ msgs' = Append(msgs, Head(out))
            /\ out' = Tail(out)
            /\ exec_pc' = IF Tail(out) = <<>> THEN "read" ELSE "send"
            /\ exec_log' = [exec_log EXCEPT !.data_sent = @ + 1]
       ELSE /\ UNCHANGED <<msgs, out>>
            /\ exec_pc' = after_send_error
            /\ exec_log' = [exec_log EXCEPT !.exit = "send_failed"]
    /\ UNCHANGED <<bufVars, app, captureVars, wav_len, consumerVars, playbackVars, pipe, calcVars>>

\* ------------------------------------------------------------------------
\* The consumer: subscription and update of analyzer_app and ui
\* ------------------------------------------------------------------------

\* Mutant of update_outcome: the closed message is handled like any other.
update_outcome_handled(m) == "ok"

\* update(state, message): the arm for AudioStreamClosed is todo!().
update_outcome(m) == IF m.kind = "AudioStreamClosed" THEN "todo_panic" ELSE "ok"

Count(log, m) ==
    IF m.kind = "AudioStreamClosed"
    THEN [log EXCEPT !.closed = @ + 1]
    ELSE [log EXCEPT !.data = @ + 1,
                     !.after_closed = IF log.closed > 0 THEN @ + 1 ELSE @,
                     !.last = [kind |-> m.kind, start |-> m.start]]

\* The subscription: audio_messages.recv() returned Ok(m); m is emitted.
SubRecv ==
    /\ Analysis /\ ui_pc = "running" /\ sub_alive
    /\ msgs # <<>> /\ CanSend(ui_queue, SUBSCRIPTION_MAX)
    /\ msgs' = Tail(msgs)
    /\ ui_queue' = Append(ui_queue, Head(msgs))
    /\ emitted' = Count(emitted, Head(msgs))
    /\ UNCHANGED <<bufVars, app, captureVars, exec_pc, out, exec_log, wav_len,
                   msgs_rx_open, ui_pc, sub_alive, observed, playbackVars, pipe, calcVars>>

\* recv() returned Err (channel drained, Sender dropped): the subscription
\* emits a closed message of its own; analyzer_app's then returns, ui's
\* unfold polls again. The two programs are the same up to this point, so
\* which of them runs is settled here.
SubRecvErr ==
    /\ Analysis /\ ui_pc = "running" /\ sub_alive
    /\ msgs = <<>> /\ ~msgs_tx_open /\ CanSend(ui_queue, SUBSCRIPTION_MAX)
    /\ emitted.closed < MaxClosedObserved
    /\ ui_queue' = Append(ui_queue, AudioStreamClosed)
    /\ emitted' = Count(emitted, AudioStreamClosed)
    /\ app' \in IF app = "capture" THEN {"analyzer", "ui"} ELSE {app}
    /\ sub_alive' = (app' = "ui")
    /\ UNCHANGED <<bufVars, captureVars, execVars, msgs_rx_open, ui_pc, observed,
                   playbackVars, pipe, calcVars>>

\* The event loop hands the next emitted message to update().
Update ==
    LET m == Head(ui_queue)
        r == update_outcome(m) IN
    /\ Analysis /\ ui_pc = "running" /\ ui_queue # <<>>
    /\ ui_queue' = Tail(ui_queue)
    /\ observed' = Count(observed, m)
    /\ ui_pc' = IF r = "todo_panic" THEN "panicked" ELSE "running"
    /\ msgs_rx_open' = (r # "todo_panic")
    /\ sub_alive' = IF r = "todo_panic" THEN FALSE ELSE sub_alive
    /\ UNCHANGED <<bufVars, app, captureVars, execVars, emitted, playbackVars, pipe, calcVars>>

\* The window is closed: the application state and its Receivers are dropped.
UIExit ==
    /\ Analysis /\ ui_pc = "running"
    /\ ui_pc' = "exited"
    /\ msgs_rx_open' = FALSE
    /\ sub_alive' = FALSE
    /\ UNCHANGED <<bufVars, app, captureVars, execVars, ui_queue, emitted, observed,
                   playbackVars, pipe, calcVars>>

\* ------------------------------------------------------------------------
\* Playback: OutputDevice and FrameReceiver
\* ------------------------------------------------------------------------

\* next_slice_from_current: the slice (as first stamp and length) and the
\* cursor after it; `assert!(start < end)` fails on an empty frame.
next_slice_from_current(rcv, cur_sample, max_len) ==
    LET start == cur_sample
        end == Min(start + max_len, rcv.cur_frame.len)
    IN  [panic |-> ~(start < end),
         rcv |-> [rcv EXCEPT !.cur_sample = IF end < rcv.cur_frame.len THEN end ELSE -1],
         first |-> rcv.cur_frame.first + start,
         len |-> end - start]

\* Mutant of next_slice: a closed channel is reported before the frames
\* still queued in it are taken.
next_slice_closed_first(rcv, q, tx_open, max_len) ==
    IF rcv.cur_sample # -1
    THEN LET s == next_slice_from_current(rcv, rcv.cur_sample, max_len)
         IN  [ret |-> IF s.panic THEN "panic" ELSE "Some", rcv |-> s.rcv, q |-> q,
              first |-> s.first, len |-> s.len]
    ELSE IF ~tx_open
    THEN [ret |-> "EndOfStream", rcv |-> rcv, q |-> q, first |-> -1, len |-> 0]
    ELSE IF q # <<>>
    THEN LET got == [rcv EXCEPT !.cur_frame = Head(q), !.cur_sample = 0]
             s == next_slice_from_current(got, 0, max_len)
         IN  [ret |-> IF s.panic THEN "panic" ELSE "Some",
              rcv |-> IF s.panic THEN got ELSE s.rcv, q |-> Tail(q),
              first |-> s.first, len |-> s.len]
    ELSE [ret |-> "None", rcv |-> rcv, q |-> q, first |-> -1, len |-> 0]

\* next_slice: "Some", "None" (nothing queued), "EndOfStream" or "panic".
next_slice(rcv, q, tx_open, max_len) ==
    IF rcv.cur_sample # -1
    THEN LET s == next_slice_from_current(rcv, rcv.cur_sample, max_len)
         IN  [ret |-> IF s.panic THEN "panic" ELSE "Some", rcv |-> s.rcv, q |-> q,
              first |-> s.first, len |-> s.len]
    ELSE IF q # <<>>
    THEN IF Head(q).channels # rcv.channels \/ Head(q).sample_rate # rcv.sample_rate
         THEN [ret |-> "panic", rcv |-> rcv, q |-> Tail(q), first |-> -1, len |-> 0]
         ELSE LET got == [rcv EXCEPT !.cur_frame = Head(q), !.cur_sample = 0]
                  s == next_slice_from_current(got, 0, max_len)
              IN  [ret |-> IF s.panic THEN "panic" ELSE "Some",
                   rcv |-> IF s.panic THEN got ELSE s.rcv, q |-> Tail(q),
                   first |-> s.first, len |-> s.len]
    ELSE [ret |-> IF tx_open THEN "None" ELSE "EndOfStream", rcv |-> rcv, q |-> q,
          first |-> -1, len |-> 0]

\* fill_buffer for a buffer of `want` samples, `satisfied` of them filled.
RECURSIVE fill_buffer(_, _, _, _, _, _)
fill_buffer(rcv, q, tx_open, want, satisfied, data) ==
    IF ~(satisfied < want)
    THEN [ret |-> "Ok", rcv |-> rcv, q |-> q, satisfied |-> satisfied, data |-> data]
    ELSE LET s == next_slice(rcv, q, tx_open, want - satisfied)
         IN  IF s.ret = "Some"
             THEN fill_buffer(s.rcv, s.q, tx_open, want, satisfied + s.len,
                              data \o [i \in 1..s.len |-> s.first + (i - 1)])
             ELSE [ret |-> IF s.ret = "None" THEN "Ok" ELSE s.ret,
                   rcv |-> s.rcv, q |-> s.q, satisfied |-> satisfied, data |-> data]

\* OutputDevice::push: send_blocking of the frame; Err(DeviceClosed) once
\* the Receiver is gone, which process_once().unwrap() turns into a panic
\* of the producer thread.
OutputPush(channels, sample_rate, n) ==
    /\ app = "synth" /\ out_tx_open
    /\ out_pushed.frames < MaxOutFrames
    /\ ~receiver.alive \/ CanSend(out_frames, MAX_FRAME_QUEUE_LEN)
    /\ IF receiver.alive
       THEN /\ out_frames' = Append(out_frames,
                                 [channels |-> channels, sample_rate |-> sample_rate,
                                  first |-> out_pushed.samples, len |-> n])
            /\ out_pushed' = [frames |-> out_pushed.frames + 1,
                              samples |-> out_pushed.samples + n]
            /\ out_tx_open' = TRUE
       ELSE /\ UNCHANGED <<out_frames, out_pushed>>
            /\ out_tx_open' = FALSE
    /\ UNCHANGED <<bufVars, app, captureVars, execVars, consumerVars, receiver,
                   last_fill, played, pipe, calcVars>>

\* The producer thread ends (its command channel closed, or its input
\* failed): the OutputDevice and its Sender are dropped.
OutputDrop ==
    /\ app = "synth" /\ out_tx_open
    /\ out_tx_open' = FALSE
    /\ UNCHANGED <<bufVars, app, captureVars, execVars, consumerVars, out_frames,
                   out_pushed, receiver, last_fill, played, pipe, calcVars>>

\* The output callback: receiver.fill_buffer(data) for a buffer of `want`.
OutputCallback(want) ==
    LET r == fill_buffer(receiver, out_frames, out_tx_open, want, 0, <<>>) IN
    /\ app = "synth" /\ receiver.alive
    /\ out_frames' = r.q
    /\ receiver' = [r.rcv EXCEPT !.alive = (r.ret # "panic")]
    /\ last_fill' = [ret |-> r.ret, satisfied |-> r.satisfied, want |-> want,
                     data |-> r.data, left |-> Len(r.q), tx_open |-> out_tx_open]
    /\ played' = played + r.satisfied
    /\ UNCHANGED <<bufVars, app, captureVars, execVars, consumerVars, out_tx_open,
                   out_pushed, pipe, calcVars>>

\* ------------------------------------------------------------------------
\* The programs: analyzer_app and ui (capture, Executor, consumer) and
\* synth_app (producer, playback)
\* ------------------------------------------------------------------------

InitExec ==
    /\ stage = "periods"
    /\ period = NoPeriod
    /\ slices = NoSlices
    /\ panicked = "no"
    /\ last_op = [op |-> "new", ret |-> "ok"]
    /\ periods_returned = 0
    /\ buf_log = NoCalls
    /\ app \in {"capture", "synth"}
    /\ \E channels \in ExecChannelCounts, sample_rate \in ExecSampleRates :
          /\ periods = Executor_new(channels, sample_rate)
          /\ ThreadsInit(channels, sample_rate)
    /\ cb_samples \in 1..MaxCbSamples
    /\ app = "synth" => cb_samples = 1

NextExec ==
    \/ CaptureCallback
    \/ DeviceClose
    \/ ExecRead
    \/ ExecReadErr
    \/ ExecSendClosed
    \/ ExecSend
    \/ SubRecv
    \/ SubRecvErr
    \/ Update
    \/ UIExit
    \/ \E channels \in ExecChannelCounts, n \in 0..MaxOutFrameLen :
          OutputPush(channels, receiver.sample_rate, n)
    \/ OutputDrop
    \/ \E want \in 1..MaxDst : OutputCallback(want)

SpecExec == InitExec /\ [][NextExec]_vars

\* The Executor thread and the consumer's runtime are scheduled: a step
\* of theirs that stays possible is taken. The capture device and the
\* user (DeviceClose, UIExit) are under no such obligation. The condition
\* on the read is weak fairness of ExecRead written out: ExecRead is
\* enabled exactly when ReadPossible holds, and it is the only step that
\* counts a read.
ReadPossible == Analysis /\ exec_pc = "read" /\ frames # <<>>

ReadTaken == exec_log'.reads = exec_log.reads + 1

\* The analyzer on its own: capture, Executor and consumer.
InitAnalysis == InitExec /\ app = "capture"

NextAnalysis ==
    \/ CaptureCallback
    \/ DeviceClose
    \/ ExecRead
    \/ ExecReadErr
    \/ ExecSendClosed
    \/ ExecSend
    \/ SubRecv
    \/ SubRecvErr
    \/ Update
    \/ UIExit

SpecAnalysisFair ==
    /\ InitAnalysis /\ [][NextAnalysis]_vars
    /\ ([]<>(~ReadPossible) \/ []<><<ReadTaken>>_vars)
    /\ WF_vars(ExecReadErr)
    /\ WF_vars(ExecSend) /\ WF_vars(ExecSendClosed)
    /\ WF_vars(SubRecv) /\ WF_vars(SubRecvErr) /\ WF_vars(Update)

\* ------------------------------------------------------------------------
\* Pipeline, Step, Identity and Chain
\* ------------------------------------------------------------------------

\* The values that flow through a pipeline name where they come from: item
\* x of the source is <<x>>, output i of a step for input v is v with i
\* appended.

\* Identity::process: Some(input).
Identity_process(v) == <<v>>

\* A step of the trait: any number of outputs for one input.
Step_process(v, n) == [i \in 1..n |-> Append(v, i)]

\* ChainResult::next is todo!().
ChainResult_next == "todo_panic"

\* Chain::process builds the ChainResult from first.process(input); the
\* outputs come from iterating it.
Chain_process(x, n) ==
    [first_res |-> Step_process(x, n), second_res |-> "None"]

\* step.process(frame).into_iter() run to its end by the `for` loop.
step_outputs(step, x, n) ==
    IF step = "Identity" THEN [panic |-> FALSE, outs |-> Identity_process(x)]
    ELSE IF step = "Step" THEN [panic |-> FALSE, outs |-> Step_process(x, n)]
    ELSE [panic |-> ChainResult_next = "todo_panic", outs |-> <<>>]

\* Mutant of push_outputs: only the first output is pushed.
push_outputs_first_only(p, outs, i) ==
    IF i > Len(outs) THEN [p |-> p, ret |-> "Ok"]
    ELSE LET k == p.pushes + 1
             q == [p EXCEPT !.pushes = k, !.attempted = Append(@, outs[i])]
         IN  IF k \in p.fail_at THEN [p |-> q, ret |-> "OutputError"]
             ELSE [p |-> [q EXCEPT !.sink = Append(@, outs[i])], ret |-> "Ok"]

\* Mutant of push_outputs: a rejected output does not end the loop; the
\* failure is reported after the remaining outputs were pushed.
RECURSIVE push_outputs_keep_going(_, _, _)
push_outputs_keep_going(p, outs, i) ==
    IF i > Len(outs) THEN [p |-> p, ret |-> "Ok"]
    ELSE LET k == p.pushes + 1
             q == [p EXCEPT !.pushes = k, !.attempted = Append(@, outs[i])]
         IN  IF k \in p.fail_at
             THEN [p |-> push_outputs_keep_going(q, outs, i + 1).p, ret |-> "OutputError"]
             ELSE push_outputs_keep_going([q EXCEPT !.sink = Append(@, outs[i])],
                                          outs, i + 1)

\* The loop `for output in ... { self.output.push(output) }` from output i
\* on: the sink rejects the pushes it was set to reject.
RECURSIVE push_outputs(_, _, _)
push_outputs(p, outs, i) ==
    IF i > Len(outs) THEN [p |-> p, ret |-> "Ok"]
    ELSE LET k == p.pushes + 1
             q == [p EXCEPT !.pushes = k, !.attempted = Append(@, outs[i])]
         IN  IF k \in p.fail_at THEN [p |-> q, ret |-> "OutputError"]
             ELSE push_outputs([q EXCEPT !.sink = Append(@, outs[i])], outs, i + 1)

\* Mutant of read_error_tag: the source's failure gets the sink's tag.
read_error_tag_swapped == "OutputError"

\* `Err(e) => Err(ProcessError::InputError(e))`.
read_error_tag == "InputError"

\* Pipeline::process_once; the step yields n outputs for the item read.
process_once(p, n) ==
    LET t == [p EXCEPT !.ticks = @ + 1, !.read_attempts = @ + 1] IN
    IF p.reads >= p.input_len
    THEN [t EXCEPT !.last = [ret |-> read_error_tag, item |-> 0, yielded |-> <<>>]]
    ELSE LET x == p.reads + 1
             r == step_outputs(p.step, <<x>>, n)
             t2 == [t EXCEPT !.reads = x, !.step_calls = @ + 1]
         IN  IF r.panic
             THEN [t2 EXCEPT !.last = [ret |-> "panic", item |-> x, yielded |-> <<>>]]
             ELSE LET res == push_outputs(t2, r.outs, 1)
                  IN  [res.p EXCEPT !.last = [ret |-> res.ret, item |-> x,
                                              yielded |-> r.outs]]

InitPipeline ==
    /\ stage = "buffer"
    /\ periods = PeriodBuffer_new(SampleBuffer_new(1, 1, 1, 1), 1, 1)
    /\ period = NoPeriod
    /\ slices = NoSlices
    /\ panicked = "no"
    /\ last_op = [op |-> "new", ret |-> "ok"]
    /\ periods_returned = 0
    /\ buf_log = NoCalls
    /\ app = "pipeline"
    /\ cb_samples = 1
    /\ frames = <<>> /\ frame_count = 0 /\ dropped = {} /\ last_cb = "none"
    /\ input_open = TRUE /\ exec_pc = "read" /\ out = <<>> /\ msgs = <<>>
    /\ msgs_rx_open = TRUE /\ exec_log = NoLog /\ wav_len = 0
    /\ ui_pc = "running" /\ sub_alive = TRUE /\ ui_queue = <<>>
    /\ emitted = NoneObserved /\ observed = NoneObserved
    /\ out_frames = <<>> /\ out_tx_open = TRUE
    /\ out_pushed = [frames |-> 0, samples |-> 0]
    /\ receiver = FrameReceiver_new(1, 1)
    /\ last_fill = NoFill /\ played = 0
    /\ dsp = NoFFT /\ acc = NoAccumulator /\ MoreInit
    /\ \E step \in {"Identity", "Step", "Chain"}, input_len \in 0..MaxItems,
          fail_at \in SUBSET (1..MaxPushes) :
          pipe = Pipeline_new(step, input_len, fail_at)

\* One call of process_once; a panic in it ends the thread.
ProcessOnce(n) ==
    /\ app = "pipeline" /\ pipe.ticks < MaxTicks /\ pipe.last.ret # "panic"
    /\ pipe' = process_once(pipe, n)
    /\ UNCHANGED <<bufVars, app, captureVars, execVars, consumerVars, playbackVars, calcVars>>

NextPipeline == \E n \in 0..MaxStepOutputs : ProcessOnce(n)

SpecPipeline == InitPipeline /\ [][NextPipeline]_vars

\* ------------------------------------------------------------------------
\* PolarFFT: unwrap_phase and into_folded. A bin is <<magnitude, phase>>;
\* phases are whole multiples of PI / HalfTurn and the arithmetic on them
\* is exact. A folded magnitude is the fraction <<numerator, denominator>>.
\* ------------------------------------------------------------------------

PI == HalfTurn

PolarFFT(values) ==
    [kind |-> "polar", values |-> values, unfolded_length |-> 0,
     unwraps |-> 0, given |-> values, once |-> <<>>, src |-> <<>>]

\* The loop of unwrap_phase from bin i (1-based) on; prev_wrapped and prev
\* are the phases of the previous bin before and after its adjustment.
RECURSIVE unwrap_from(_, _, _, _)
unwrap_from(values, i, prev_wrapped, prev) ==
    IF i > Len(values) THEN values
    ELSE LET cur == values[i]
             d == cur[2] - prev_wrapped
             diff == IF d > PI THEN d - 2 * PI
                     ELSE IF d < -PI THEN d + 2 * PI
                     ELSE d
         IN  unwrap_from([values EXCEPT ![i] = <<cur[1], prev + diff>>],
                         i + 1, cur[2], prev + diff)

unwrap_phase(values) == unwrap_from(values, 1, 0, 0)

\* Mutant of folded_len: the bin at n/2 is deleted too.
folded_len_half(n) == Min(n, n \div 2)

\* The length after values.truncate(n / 2 + 1).
folded_len(n) == Min(n, n \div 2 + 1)

\* Mutant of scale: the last bin is never doubled.
scale_last_single(i, len, n) ==
    IF i = 0 THEN <<1, n>>
    ELSE IF i = len - 1 THEN <<1, n>>
    ELSE <<2, n>>

\* The factor applied to the magnitude of bin i (0-based) of len kept bins.
scale(i, len, n) ==
    IF i = 0 THEN <<1, n>>
    ELSE IF i = len - 1 /\ n % 2 = 0 THEN <<1, n>>
    ELSE <<2, n>>

into_folded(values) ==
    LET n == Len(values)
        len == folded_len(n)
    IN  [kind |-> "folded",
         values |-> [j \in 1..len |->
                        << <<values[j][1] * scale(j - 1, len, n)[1], scale(j - 1, len, n)[2]>>,
                           values[j][2] >>],
         unfolded_length |-> n]

\* The spectra the functions are applied to: short ones with any phases,
\* longer ones with two phases.
PolarInputs ==
    UNION {[1..n -> {1} \X ((-MaxPhase)..MaxPhase)] : n \in 0..MaxUnwrapLen}
        \cup UNION {[1..n -> (1..MaxMag) \X {-1, PI}] : n \in 0..MaxBins}

InitDsp ==
    /\ stage = "buffer"
    /\ periods = PeriodBuffer_new(SampleBuffer_new(1, 1, 1, 1), 1, 1)
    /\ period = NoPeriod
    /\ slices = NoSlices
    /\ panicked = "no"
    /\ last_op = [op |-> "new", ret |-> "ok"]
    /\ periods_returned = 0
    /\ buf_log = NoCalls
    /\ app = "dsp"
    /\ cb_samples = 1
    /\ frames = <<>> /\ frame_count = 0 /\ dropped = {} /\ last_cb = "none"
    /\ input_open = TRUE /\ exec_pc = "read" /\ out = <<>> /\ msgs = <<>>
    /\ msgs_rx_open = TRUE /\ exec_log = NoLog /\ wav_len = 0
    /\ ui_pc = "running" /\ sub_alive = TRUE /\ ui_queue = <<>>
    /\ emitted = NoneObserved /\ observed = NoneObserved
    /\ out_frames = <<>> /\ out_tx_open = TRUE
    /\ out_pushed = [frames |-> 0, samples |-> 0]
    /\ receiver = FrameReceiver_new(1, 1)
    /\ last_fill = NoFill /\ played = 0
    /\ pipe = NoPipeline /\ acc = NoAccumulator /\ MoreInit
    /\ \E values \in PolarInputs : dsp = PolarFFT(values)

UnwrapPhase ==
    /\ app = "dsp" /\ dsp.kind = "polar" /\ dsp.unwraps < MaxUnwraps
    /\ dsp' = [dsp EXCEPT !.values = unwrap_phase(dsp.values),
                          !.unwraps = @ + 1,
                          !.once = IF dsp.unwraps = 0 THEN unwrap_phase(dsp.values) ELSE @]
    /\ UNCHANGED <<bufVars, app, captureVars, execVars, consumerVars, playbackVars, pipe, acc, moreVars>>

IntoFolded ==
    /\ app = "dsp" /\ dsp.kind = "polar"
    /\ dsp' = [dsp EXCEPT !.kind = "folded",
                          !.values = into_folded(dsp.values).values,
                          !.unfolded_length = into_folded(dsp.values).unfolded_length,
                          !.src = dsp.values]
    /\ UNCHANGED <<bufVars, app, captureVars, execVars, consumerVars, playbackVars, pipe, acc, moreVars>>

NextDsp == UnwrapPhase \/ IntoFolded

SpecDsp == InitDsp /\ [][NextDsp]_vars

\* ------------------------------------------------------------------------
\* FrameAccumulator. The k-th sample handed to process is the number k.
\* ------------------------------------------------------------------------

\* FrameAccumulator::new, past its assertion.
FrameAccumulator_new(channels, sample_rate, frame_len) ==
    [channels |-> channels, sample_rate |-> sample_rate, frame_len |-> frame_len,
     samples |-> <<>>]

with_frame_len(fa, new_len) == [fa EXCEPT !.frame_len = new_len]

\* Mutant of FrameAccumulator_process: the completed frame is copied out
\* and the collected samples stay.
FrameAccumulator_process_copy(fa, input) ==
    LET pushed == Append(fa.samples, input) IN
    IF Len(pushed) = fa.frame_len
    THEN [fa |-> [fa EXCEPT !.samples = pushed],
          res |-> [some |-> TRUE, channels |-> fa.channels,
                   sample_rate |-> fa.sample_rate, samples |-> pushed]]
    ELSE [fa |-> [fa EXCEPT !.samples = pushed], res |-> NoneFrame]

\* FrameAccumulator::process: the accumulator it leaves and what it returns.
FrameAccumulator_process(fa, input) ==
    LET pushed == Append(fa.samples, input) IN
    IF Len(pushed) = fa.frame_len
    THEN [fa |-> [fa EXCEPT !.samples = <<>>],
          res |-> [some |-> TRUE, channels |-> fa.channels,
                   sample_rate |-> fa.sample_rate, samples |-> pushed]]
    ELSE [fa |-> [fa EXCEPT !.samples = pushed], res |-> NoneFrame]

InitAccumulator ==
    /\ stage = "buffer"
    /\ periods = PeriodBuffer_new(SampleBuffer_new(1, 1, 1, 1), 1, 1)
    /\ period = NoPeriod
    /\ slices = NoSlices
    /\ panicked = "no"
    /\ last_op = [op |-> "new", ret |-> "ok"]
    /\ periods_returned = 0
    /\ buf_log = NoCalls
    /\ app = "accumulator"
    /\ cb_samples = 1
    /\ frames = <<>> /\ frame_count = 0 /\ dropped = {} /\ last_cb = "none"
    /\ input_open = TRUE /\ exec_pc = "read" /\ out = <<>> /\ msgs = <<>>
    /\ msgs_rx_open = TRUE /\ exec_log = NoLog /\ wav_len = 0
    /\ ui_pc = "running" /\ sub_alive = TRUE /\ ui_queue = <<>>
    /\ emitted = NoneObserved /\ observed = NoneObserved
    /\ out_frames = <<>> /\ out_tx_open = TRUE
    /\ out_pushed = [frames |-> 0, samples |-> 0]
    /\ receiver = FrameReceiver_new(1, 1)
    /\ last_fill = NoFill /\ played = 0
    /\ pipe = NoPipeline /\ dsp = NoFFT /\ MoreInit
    /\ \E channels \in 1..MaxChannels, frame_len \in 0..MaxAccFrameLen :
          /\ frame_len % channels = 0
          /\ acc = [NoAccumulator EXCEPT
                        !.fa = FrameAccumulator_new(channels, 44100, frame_len)]

\* with_frame_len; its assertion wants no sample collected.
WithFrameLen(new_len) ==
    /\ app = "accumulator" /\ ~acc.panicked /\ acc.reconfigs < MaxReconfigs
    /\ IF acc.fa.samples = <<>>
       THEN acc' = [acc EXCEPT !.fa = with_frame_len(acc.fa, new_len),
                               !.reconfigs = @ + 1, !.since = 0, !.last = NoneFrame]
       ELSE acc' = [acc EXCEPT !.panicked = TRUE, !.reconfigs = @ + 1, !.last = NoneFrame]
    /\ UNCHANGED <<bufVars, app, captureVars, execVars, consumerVars, playbackVars, pipe, dsp, moreVars>>

\* One call of process with the next sample.
AccProcess ==
    LET r == FrameAccumulator_process(acc.fa, acc.calls + 1) IN
    /\ app = "accumulator" /\ ~acc.panicked /\ acc.calls < MaxAccCalls
    /\ acc' = [acc EXCEPT !.fa = r.fa, !.calls = @ + 1, !.since = @ + 1,
                          !.last = r.res,
                          !.delivered = @ \o r.res.samples]
    /\ UNCHANGED <<bufVars, app, captureVars, execVars, consumerVars, playbackVars, pipe, dsp, moreVars>>

NextAccumulator ==
    \/ \E new_len \in 0..MaxAccFrameLen : WithFrameLen(new_len)
    \/ AccProcess

SpecAccumulator == InitAccumulator /\ [][NextAccumulator]_vars

\* ------------------------------------------------------------------------
\* ChannelPeriod as a time series
\* ------------------------------------------------------------------------

\* The instant of a sample: sample / rate, kept as the exact fraction.
Instant_from_sample_num(sample, rate) == <<sample, rate>>

\* The ChannelPeriod get_channel builds around the two slices.
ChannelPeriod(s0, s1, sb, p) ==
    [slices |-> <<s0, s1>>, sample_rate |-> sb.sample_rate,
     start_sample_num |-> p.start_sample_num, len |-> p.len]

into_timeseries(cp) == [period |-> cp, first_slice |-> TRUE, index |-> 0]

\* One call of next: the item (or none) and the iterator afterwards.  The
\* index is carried over unchanged when the iterator moves to slice 1.
RECURSIVE TimeseriesIterator_next(_)
TimeseriesIterator_next(it) ==
    LET slice == IF it.first_slice THEN it.period.slices[1] ELSE it.period.slices[2]
    IN  IF it.index < Len(slice)
        THEN [some |-> TRUE,
              item |-> <<Instant_from_sample_num(it.period.start_sample_num + it.index,
                                                 it.period.sample_rate),
                         slice[it.index + 1]>>,
              it |-> [it EXCEPT !.index = it.index + 1]]
        ELSE IF it.first_slice
             THEN TimeseriesIterator_next([it EXCEPT !.first_slice = FALSE])
             ELSE [some |-> FALSE, item |-> <<>>, it |-> it]

\* Everything the iterator yields until its first None.
RECURSIVE collect(_)
collect(it) ==
    LET r == TimeseriesIterator_next(it)
    IN  IF r.some THEN <<r.item>> \o collect(r.it) ELSE <<>>

\* ------------------------------------------------------------------------
\* IteratorInput on its own
\* ------------------------------------------------------------------------

\* IteratorInput::new over the iterator 0, 1, .., n - 1.
IteratorInput_new(n, sample_rate, frame_len) ==
    [iter |-> [i \in 1..n |-> i - 1], sample_rate |-> sample_rate,
     frame_len |-> frame_len, total |-> n, log |-> <<>>]

\* Mutant of take_frame: what was read is returned when the iterator
\* runs out.
RECURSIVE take_frame_partial(_, _, _)
take_frame_partial(iter, left, samples) ==
    IF left = 0 THEN [some |-> TRUE, samples |-> samples, iter |-> iter]
    ELSE IF iter = <<>>
         THEN [some |-> samples # <<>>, samples |-> samples, iter |-> iter]
         ELSE take_frame_partial(Tail(iter), left - 1, Append(samples, Head(iter)))

\* The loop of try_next: frame_len times, take the iterator's next sample;
\* the first None ends the call with None, and what was read is dropped.
RECURSIVE take_frame(_, _, _)
take_frame(iter, left, samples) ==
    IF left = 0 THEN [some |-> TRUE, samples |-> samples, iter |-> iter]
    ELSE IF iter = <<>>
         THEN [some |-> FALSE, samples |-> <<>>, iter |-> iter]
         ELSE take_frame(Tail(iter), left - 1, Append(samples, Head(iter)))

\* try_next: Ok(Some(frame)) or Ok(None), and the input afterwards.
IteratorInput_try_next(ii) ==
    LET r == take_frame(ii.iter, ii.frame_len, <<>>)
    IN  [ret |-> IF r.some THEN "Ok" ELSE "None",
         frame |-> IF r.some
                   THEN [some |-> TRUE, channels |-> 1,
                         sample_rate |-> ii.sample_rate, samples |-> r.samples]
                   ELSE NoneFrame,
         iter |-> r.iter]

\* next: try_next with Ok(None) turned into Err(StreamEnded).
IteratorInput_next(ii) ==
    LET r == IteratorInput_try_next(ii)
    IN  [r EXCEPT !.ret = IF r.ret = "None" THEN "StreamEnded" ELSE r.ret]

\* The buffer, threads, channels and calculators that take no part.
IdleBuffer ==
    /\ stage = "buffer"
    /\ periods = PeriodBuffer_new(SampleBuffer_new(1, 1, 1, 1), 1, 1)
    /\ period = NoPeriod
    /\ slices = NoSlices
    /\ panicked = "no"
    /\ last_op = [op |-> "new", ret |-> "ok"]
    /\ periods_returned = 0
    /\ buf_log = NoCalls

IdleThreads ==
    /\ cb_samples = 1
    /\ frames = <<>> /\ frame_count = 0 /\ dropped = {} /\ last_cb = "none"
    /\ input_open = TRUE /\ exec_pc = "read" /\ out = <<>> /\ msgs = <<>>
    /\ msgs_rx_open = TRUE /\ exec_log = NoLog /\ wav_len = 0
    /\ ui_pc = "running" /\ sub_alive = TRUE /\ ui_queue = <<>>
    /\ emitted = NoneObserved /\ observed = NoneObserved
    /\ out_frames = <<>> /\ out_tx_open = TRUE
    /\ out_pushed = [frames |-> 0, samples |-> 0]
    /\ receiver = FrameReceiver_new(1, 1)
    /\ last_fill = NoFill /\ played = 0
    /\ dsp = NoFFT /\ acc = NoAccumulator

InitIterator ==
    /\ \E n \in 0..MaxIterSamples, sample_rate \in ExecSampleRates,
          frame_len \in 0..MaxIterFrameLen :
          iter_in = IteratorInput_new(n, sample_rate, frame_len)
    /\ app = "iterator"
    /\ pipe = NoPipeline
    /\ pexec = NoPipelineExecutor
    /\ draining = NoDraining
    /\ IdleBuffer /\ IdleThreads

\* A call of next() on the input.
IterNext ==
    /\ app = "iterator"
    /\ Len(iter_in.log) < MaxIterCalls
    /\ LET r == IteratorInput_next(iter_in)
       IN  iter_in' = [iter_in EXCEPT
               !.iter = r.iter,
               !.log = Append(@, [op |-> "next", ret |-> r.ret, frame |-> r.frame])]
    /\ UNCHANGED <<bufVars, app, captureVars, execVars, consumerVars, playbackVars,
                   pipe, dsp, acc, pexec, draining>>

\* A call of try_next() on the input.
IterTryNext ==
    /\ app = "iterator"
    /\ Len(iter_in.log) < MaxIterCalls
    /\ LET r == IteratorInput_try_next(iter_in)
       IN  iter_in' = [iter_in EXCEPT
               !.iter = r.iter,
               !.log = Append(@, [op |-> "try_next", ret |-> r.ret, frame |-> r.frame])]
    /\ UNCHANGED <<bufVars, app, captureVars, execVars, consumerVars, playbackVars,
                   pipe, dsp, acc, pexec, draining>>

NextIterator == IterNext \/ IterTryNext

SpecIterator == InitIterator /\ [][NextIterator]_vars

\* ------------------------------------------------------------------------
\* PipelineExecutor: the loop of run and the command channel of its UI.
\* Commands are numbered in the order sent; update is recorded by the
\* command applied and the tick it was applied in.
\* ------------------------------------------------------------------------

\* PipelineExecutor::new: the command channel is open and empty, the
\* thread is about to enter the loop.
PipelineExecutor_new ==
    [pc |-> "run", cmds |-> <<>>, tx_open |-> TRUE, sent |-> 0, applied |-> <<>>]

\* receiver.try_recv(): the oldest queued command, Empty, or Closed once
\* the sender is gone and the queue is empty.
try_recv(cmds, tx_open) ==
    IF cmds # <<>> THEN [ret |-> "Ok", cmd |-> Head(cmds), cmds |-> Tail(cmds)]
    ELSE IF tx_open THEN [ret |-> "Empty", cmd |-> 0, cmds |-> cmds]
         ELSE [ret |-> "Closed", cmd |-> 0, cmds |-> cmds]

\* process_once().unwrap(): any Err, and a panic inside, ends the thread.
unwrap(ret) == IF ret = "Ok" THEN "run" ELSE "panicked"

InitPipelineExecutor ==
    /\ app = "pexec"
    /\ pexec = PipelineExecutor_new
    /\ iter_in = NoIterator
    /\ draining = NoDraining
    /\ \E step \in {"Identity", "Step", "Chain"}, input_len \in 0..MaxTicks,
          fail_at \in {{}} \cup {{k} : k \in 1..MaxPushes} :
          pipe = Pipeline_new(step, input_len, fail_at)
    /\ IdleBuffer /\ IdleThreads

\* One turn of the loop of run.
PipelineExecutorRun(n) ==
    /\ app = "pexec" /\ pexec.pc = "run" /\ pipe.ticks < MaxTicks
    /\ LET r == try_recv(pexec.cmds, pexec.tx_open)
       IN  IF r.ret = "Closed"
           THEN /\ pexec' = [pexec EXCEPT !.pc = "exited"]
                /\ pipe' = pipe
           ELSE LET t == process_once(pipe, n)
                IN  /\ pipe' = t
                    /\ pexec' = [pexec EXCEPT
                          !.cmds = r.cmds,
                          !.applied = IF r.ret = "Ok"
                                      THEN Append(@, [cmd |-> r.cmd, tick |-> t.ticks])
                                      ELSE @,
                          !.pc = unwrap(t.last.ret)]
    /\ UNCHANGED <<bufVars, app, captureVars, execVars, consumerVars, playbackVars,
                   dsp, acc, iter_in, draining>>

\* The UI sends a command (send_blocking waits while the channel is full).
CommandSend ==
    /\ app = "pexec" /\ pexec.tx_open /\ pexec.pc = "run"
    /\ pexec.sent < MaxCmds /\ Len(pexec.cmds) < CHANNEL_MAX
    /\ pexec' = [pexec EXCEPT !.sent = @ + 1, !.cmds = Append(@, pexec.sent + 1)]
    /\ UNCHANGED <<bufVars, app, captureVars, execVars, consumerVars, playbackVars,
                   pipe, dsp, acc, iter_in, draining>>

\* The UI goes away and drops the Sender.
CommandClose ==
    /\ app = "pexec" /\ pexec.tx_open
    /\ pexec' = [pexec EXCEPT !.tx_open = FALSE]
    /\ UNCHANGED <<bufVars, app, captureVars, execVars, consumerVars, playbackVars,
                   pipe, dsp, acc, iter_in, draining>>

NextPipelineExecutor ==
    \/ \E n \in 0..MaxStepOutputs : PipelineExecutorRun(n)
    \/ CommandSend
    \/ CommandClose

SpecPipelineExecutor == InitPipelineExecutor /\ [][NextPipelineExecutor]_vars

\* ------------------------------------------------------------------------
\* The loop of Executor::process over any PeriodBuffer: a frame is pushed,
\* then next() is called until it returns None, every period obtained
\* being read through get_channel on each channel.
\* ------------------------------------------------------------------------

InitDraining ==
    /\ app = "drain"
    /\ draining = [pc |-> "push", largest |-> 0]
    /\ stage = "periods"
    /\ \E channels \in 1..MaxChannels, max_len \in 0..MaxLen,
          period_len \in 0..MaxPeriodLen, period_stride \in 0..MaxStride :
          periods = PeriodBuffer_new(SampleBuffer_new(channels, 44100, max_len, max_len),
                                     period_len, period_stride)
    /\ period = NoPeriod
    /\ slices = NoSlices
    /\ panicked = "no"
    /\ last_op = [op |-> "new", ret |-> "ok"]
    /\ periods_returned = 0
    /\ buf_log = NoCalls
    /\ pipe = NoPipeline /\ iter_in = NoIterator /\ pexec = NoPipelineExecutor
    /\ IdleThreads

\* self.periods.push(frame) for a frame of n samples per channel.
DrainingPush(n) ==
    LET f == FrameOf(periods.buffer, periods.buffer.channels,
                     periods.buffer.sample_rate, n * periods.buffer.channels)
        pushed == [periods EXCEPT !.buffer = SampleBuffer_push(periods.buffer, f)]
        largest == IF n > draining.largest THEN n ELSE draining.largest
    IN
    /\ app = "drain" /\ draining.pc = "push"
    /\ periods.buffer.sample_count + n < MaxPeriods
    /\ periods' = pushed
    /\ IF RetentionHolds(pushed)
       THEN /\ panicked' = "no"
            /\ last_op' = [op |-> "push", ret |-> "ok"]
            /\ draining' = [pc |-> "drain", largest |-> largest]
       ELSE /\ panicked' = "retention_assert"
            /\ last_op' = [op |-> "push", ret |-> "panic"]
            /\ draining' = [pc |-> "panicked", largest |-> largest]
    /\ buf_log' = Called(buf_log, f, TRUE)
    /\ UNCHANGED <<stage, period, slices, periods_returned, app, captureVars, execVars,
                   consumerVars, playbackVars, pipe, dsp, acc, iter_in, pexec>>

\* One turn of `while let Some(p) = self.periods.next()`.
DrainingNext ==
    /\ app = "drain" /\ draining.pc = "drain"
    /\ has_next(periods) => periods_returned < MaxPeriods
    /\ IF has_next(periods)
       THEN LET p == NextPeriod(periods)
                nb == AdvancePeriod(periods)
            IN  /\ periods' = nb
                /\ periods_returned' = periods_returned + 1
                /\ buf_log' = [Returned(buf_log) EXCEPT
                                   !.starts = Append(@, p.start_sample_num)]
                /\ IF \A ch \in 0..(nb.buffer.channels - 1) : GetChannelOk(nb.buffer, p, ch)
                   THEN /\ panicked' = "no"
                        /\ last_op' = [op |-> "next", ret |-> "Some"]
                        /\ draining' = draining
                   ELSE /\ panicked' = "get_channel"
                        /\ last_op' = [op |-> "get_channel", ret |-> "panic"]
                        /\ draining' = [draining EXCEPT !.pc = "panicked"]
       ELSE /\ UNCHANGED <<periods, periods_returned, panicked>>
            /\ buf_log' = Returned(buf_log)
            /\ last_op' = [op |-> "next", ret |-> "None"]
            /\ draining' = [draining EXCEPT !.pc = "push"]
    /\ UNCHANGED <<stage, period, slices, app, captureVars, execVars,
                   consumerVars, playbackVars, pipe, dsp, acc, iter_in, pexec>>

NextDraining ==
    \/ \E n \in 0..MaxFrameSamples : DrainingPush(n)
    \/ DrainingNext

SpecDraining == InitDraining /\ [][NextDraining]_vars

\* The while loop is sequential code of one thread: it goes on.
SpecDrainingFair == SpecDraining /\ WF_vars(DrainingNext)

\* ------------------------------------------------------------------------
\* Properties of the ring and of the windowing
\* ------------------------------------------------------------------------

\* The content of channel's ring read as first segment, then second.
RingContent(channel) ==
    as_slices(periods.buffer.buffers[channel])[1]
        \o as_slices(periods.buffer.buffers[channel])[2]

\* Samples first .. first+n-1 of a channel of the pushed stream.
StreamSamples(channel, first, n) ==
    [i \in 1..n |-> Stamp(channel, first + (i - 1), periods.buffer.channels)]

Channels == 0..(periods.buffer.channels - 1)

\* C1: once more than max_len samples per channel were pushed, each ring
\* holds exactly the most recent max_len samples of its channel, oldest
\* first, read as first segment then second segment.
C1_RingHoldsMostRecent ==
    \A channel \in Channels :
        periods.buffer.sample_count > periods.buffer.max_len =>
            RingContent(channel) =
                StreamSamples(channel,
                              periods.buffer.sample_count - periods.buffer.max_len,
                              periods.buffer.max_len)

\* The same statement for buffers constructed with max_len >= 1 (not the
\* claim C1: it leaves out the buffers on which C1 fails).
RingHoldsMostRecentPositive ==
    periods.buffer.max_len >= 1 => C1_RingHoldsMostRecent

\* C2: the slices get_channel returns for a Period that next() returned,
\* read as slice 0 then slice 1, are the samples start_sample_num ..
\* start_sample_num + len - 1 of the channel, in order; and get_channel
\* returns (does not abort) on such a Period.
C2_SlicesAreThePeriod ==
    /\ panicked # "get_channel"
    /\ slices # NoSlices =>
          slices.s0 \o slices.s1 =
              StreamSamples(slices.channel, period.start_sample_num, period.len)

\* C2 witness: get_channel returned a window that straddles the two ring
\* segments.
C2_Witness ==
    /\ slices # NoSlices
    /\ slices.where = "split"
    /\ Len(slices.s0) >= 1 /\ Len(slices.s1) >= 1

\* The two other placements of a window are reached too.
WhollyFirstNeverWrapped ==
    ~(slices # NoSlices /\ slices.where = "first" /\ period.len >= 1
        /\ as_slices(periods.buffer.buffers[slices.channel])[2] # <<>>)
WhollySecondNever ==
    ~(slices # NoSlices /\ slices.where = "second" /\ period.len >= 1)

\* C3: the k-th period returned by next() (k = 0, 1, ...) is the window
\* [k*S, k*S + L) of the stream, and after k successful calls
\* next_period_end = L + k*S (each success advances it by exactly S).
C3_KthPeriodWindow ==
    stage = "periods" =>
        /\ periods.next_period_end =
               periods.period_len + periods_returned * periods.period_stride
        /\ period # NoPeriod =>
               /\ period.start_sample_num = (periods_returned - 1) * periods.period_stride
               /\ period.len = periods.period_len
        /\ slices # NoSlices =>
               slices.s0 \o slices.s1 =
                   StreamSamples(slices.channel,
                                 (periods_returned - 1) * periods.period_stride,
                                 periods.period_len)

\* C3 witness: the third period of an overlapping stream (stride < length)
\* was returned and read after the ring had evicted samples.
C3_Witness ==
    /\ periods_returned = 3
    /\ slices # NoSlices
    /\ periods.period_stride >= 1
    /\ periods.period_stride < periods.period_len
    /\ periods.buffer.sample_count > periods.buffer.max_len

\* C4: next() returns Some exactly when next_period_end <= sample_count held
\* when it was called; a None leaves the PeriodBuffer (next_period_end, the
\* rings, sample_count) as it was.
C4_NextStep ==
    (last_op'.op = "next") =>
        /\ (last_op'.ret = "Some") <=>
               (periods.next_period_end <= periods.buffer.sample_count)
        /\ (last_op'.ret = "Some") => period' # NoPeriod
        /\ (last_op'.ret = "None") => (periods' = periods /\ period' = NoPeriod)

C4_NextIffHasNext == [][C4_NextStep]_vars

\* C4 witness: next() returned None on a buffer that holds samples.
C4_Witness ==
    /\ last_op = [op |-> "next", ret |-> "None"]
    /\ periods.buffer.sample_count >= 1
    /\ periods_returned >= 1

\* C5: while the PeriodBuffer has not aborted, the start of the pending
\* period is not older than the oldest retained sample; a push after which
\* it would be older aborts on the retention assertion.
C5_PendingPeriodRetained ==
    LET sb == periods.buffer
        oldest == sb.sample_count - Min(sb.sample_count, sb.max_len)
        pending_start == periods.next_period_end - periods.period_len
    IN  /\ (stage = "periods" /\ panicked = "no") => pending_start >= oldest
        /\ (panicked = "retention_assert") =>
               (last_op = [op |-> "push", ret |-> "panic"] /\ pending_start < oldest)

\* C5 witness: a push returned normally after the ring had started to evict
\* samples and periods had been drained.
C5_Witness ==
    /\ stage = "periods"
    /\ last_op = [op |-> "push", ret |-> "ok"]
    /\ periods.buffer.sample_count > periods.buffer.max_len
    /\ periods_returned >= 1

\* The aborting push is reached too.
RetentionAbortNever == panicked # "retention_assert"

\* ------------------------------------------------------------------------
\* Properties of the threads and their channels
\* ------------------------------------------------------------------------

\* The elements of a set of numbers, smallest first.
RECURSIVE Ascending(_)
Ascending(S) ==
    IF S = {} THEN <<>>
    ELSE LET m == CHOOSE x \in S : \A y \in S : x <= y
         IN  <<m>> \o Ascending(S \ {m})

ClosedCount(q) == Cardinality({i \in 1..Len(q) : q[i].kind = "AudioStreamClosed"})

\* While the stream runs the callback can always take its step; the queue
\* holds, in production order, exactly the frames produced after the last
\* one read that were not dropped; no dropped frame is queued or read.
C6_QueueIsFifo ==
    /\ (Analysis /\ input_open /\ frame_count < MaxFrames) => ENABLED CaptureCallback
    /\ frames_rx_open =>
          frames = Ascending(((exec_log.last_read + 1)..(frame_count - 1)) \ dropped)
    /\ \A d \in dropped : d # exec_log.last_read /\ \A i \in 1..Len(frames) : frames[i] # d

\* A callback that finds CHANNEL_MAX frames queued drops its frame and
\* leaves the queue as it was; otherwise the frame goes to the back.
C6_DropOnFull ==
    (frame_count' = frame_count + 1 /\ frames_rx_open) =>
        /\ Len(frames) >= CHANNEL_MAX =>
              frames' = frames /\ dropped' = dropped \cup {frame_count} /\ last_cb' = "Full"
        /\ Len(frames) < CHANNEL_MAX =>
              frames' = Append(frames, frame_count) /\ dropped' = dropped /\ last_cb' = "Ok"
        /\ UNCHANGED <<execVars, consumerVars>>

\* The reader takes the frames from the front, in production order.
C6_ReadInOrder ==
    exec_log'.reads # exec_log.reads =>
        /\ exec_log'.last_read = Head(frames)
        /\ frames' = Tail(frames)
        /\ exec_log'.last_read > exec_log.last_read
        /\ exec_log'.last_read \notin dropped'

\* C6: the capture callback's enqueue never blocks; on a full queue the
\* frame is dropped (queue unchanged, frame never delivered later) and the
\* callback returns; accepted frames reach the reader in production order.
C6_CaptureNeverBlocks ==
    []C6_QueueIsFifo /\ [][C6_DropOnFull /\ C6_ReadInOrder]_vars

\* Frames were dropped on a full queue, the last callback dropped one too,
\* and a frame produced after a dropped one has been read.
C6_Witness ==
    /\ last_cb = "Full" /\ frame_count - 1 \in dropped
    /\ \E d \in dropped : exec_log.last_read > d

\* The Executor waits in send_blocking for room in the consumer channel.
ExecutorBlocked ==
    Analysis /\ exec_pc \in {"send", "closing"} /\ msgs_rx_open /\ Len(msgs) >= CHANNEL_MAX

\* C7: the capture queue and the consumer queue never hold more than
\* CHANNEL_MAX items, the playback queue never more than
\* MAX_FRAME_QUEUE_LEN; while the Executor waits on a full consumer queue
\* it takes no step, and the capture callback still takes its own.
C7_QueuesBounded ==
    /\ Len(frames) <= CHANNEL_MAX
    /\ Len(msgs) <= CHANNEL_MAX
    /\ Len(out_frames) <= MAX_FRAME_QUEUE_LEN
    /\ ExecutorBlocked =>
          /\ ~ENABLED ExecSend /\ ~ENABLED ExecSendClosed /\ ~ENABLED ExecRead
          /\ (input_open /\ frame_count < MaxFrames) => ENABLED CaptureCallback

\* The consumer stalled: the Executor waits on a full consumer queue, the
\* capture queue is full and the callback has just dropped a frame.
C7_Witness ==
    /\ ExecutorBlocked /\ exec_pc = "send"
    /\ Len(frames) = CHANNEL_MAX /\ last_cb = "Full" /\ dropped # {}

\* The playback queue is full and the producer waits in OutputDevice::push.
PlaybackQueueFullNever ==
    ~(app = "synth" /\ Len(out_frames) = MAX_FRAME_QUEUE_LEN /\ out_tx_open
        /\ out_pushed.frames < MaxOutFrames /\ receiver.alive)

\* After a failed read: one send of the closed message, with nothing of
\* earlier frames left unsent; the closed message is the last in the channel.
C8_OneClosedMessage ==
    /\ exec_pc = "closing" => out = <<>> /\ exec_log.closed_attempts = 0
    /\ exec_log.exit = "input_closed" /\ exec_pc # "closing" =>
          /\ exec_pc = "done" /\ out = <<>>
          /\ exec_log.closed_attempts = 1 /\ exec_log.closed_sent <= 1
    /\ exec_log.exit # "input_closed" => exec_log.closed_attempts = 0
    /\ ClosedCount(msgs) <= exec_log.closed_sent
    /\ \A i \in 1..Len(msgs) : msgs[i].kind = "AudioStreamClosed" => i = Len(msgs)

\* The send of the closed message puts it behind everything queued (when
\* the consumer still holds the channel), and the Executor has exited.
C8_ClosedSendStep ==
    (exec_pc = "closing" /\ exec_pc' # "closing") =>
        /\ exec_pc' = "done"
        /\ msgs_rx_open => msgs' = Append(msgs, AudioStreamClosed)
        /\ UNCHANGED <<frames, out, periods>>

\* Once it exited on a failed read the Executor reads and sends no more.
C8_ExitedStep ==
    (exec_pc = "done" /\ exec_log.exit = "input_closed") =>
        /\ UNCHANGED <<exec_pc, exec_log, out, periods, wav_len>>
        /\ msgs' = msgs \/ (msgs # <<>> /\ msgs' = Tail(msgs))
        /\ frames' = frames \/ frames' = Append(frames, frame_count)

\* C8: when the input read fails the Executor sends exactly one closed
\* message, after every message of the earlier frames, and exits: no
\* further read, no further send.
C8_ClosedOnReadFailure ==
    []C8_OneClosedMessage /\ [][C8_ClosedSendStep /\ C8_ExitedStep]_vars

\* The closed message was queued behind data messages after a failed read.
C8_Witness ==
    /\ exec_pc = "done" /\ exec_log.exit = "input_closed"
    /\ exec_log.data_sent > 0 /\ exec_log.closed_sent = 1
    /\ Len(msgs) > 1 /\ msgs[Len(msgs)] = AudioStreamClosed

\* The closed message's send failed: the consumer had closed the channel.
ClosedSendFailsNever ==
    ~(exec_pc = "done" /\ exec_log.exit = "input_closed" /\ exec_log.closed_sent = 0)

\* After a failed send the Executor has exited without a closed message.
C9_NoClosedMessage ==
    exec_log.exit = "send_failed" =>
        /\ exec_pc = "done" /\ out # <<>>
        /\ exec_log.closed_attempts = 0 /\ ClosedCount(msgs) = 0

\* The failed send exits at once, and nothing is read or sent afterwards.
C9_ExitedStep ==
    /\ (exec_log'.exit = "send_failed" /\ exec_log.exit # "send_failed") =>
          exec_pc' = "done" /\ UNCHANGED <<msgs, out, frames, periods>>
    /\ exec_log.exit = "send_failed" =>
          /\ UNCHANGED <<exec_pc, exec_log, out, periods, wav_len>>
          /\ msgs' = msgs \/ (msgs # <<>> /\ msgs' = Tail(msgs))
          /\ frames' = frames \/ frames' = Append(frames, frame_count)

\* C9: when a send fails because the consumer closed the channel the
\* Executor exits silently: no closed message, none of the remaining
\* messages of the frame, no further read.
C9_SilentExitOnSendFailure ==
    []C9_NoClosedMessage /\ [][C9_ExitedStep]_vars

\* A send failed with further messages of the frame and further frames waiting.
C9_Witness ==
    /\ exec_log.exit = "send_failed" /\ exec_pc = "done"
    /\ Len(out) > 1 /\ frames # <<>>

\* Every data message is for a complete period of the stream read so far.
CompletePeriod(m) ==
    m.kind = "AudioStreamClosed" \/
        /\ m.len = periods.period_len /\ m.start >= 0
        /\ m.start + m.len <= periods.buffer.sample_count

UpdateAbortsOnClosed ==
    /\ observed.closed <= 1 /\ observed.after_closed = 0
    /\ observed.closed = 1 => ui_pc = "panicked"

\* update() was handed a closed message.
UpdateReachesClosedNever == observed.closed = 0

\* Only complete periods are sent, and no data message follows a closed one.
DataMessagesComplete ==
    /\ emitted.after_closed = 0
    /\ \A i \in 1..Len(msgs) : CompletePeriod(msgs[i])
    /\ \A i \in 1..Len(ui_queue) : CompletePeriod(ui_queue[i])

\* ------------------------------------------------------------------------
\* Properties of the Executor's messages
\* ------------------------------------------------------------------------

IsData(m) == m.kind # "AudioStreamClosed"

\* Message b may come right after message a: b completes a's period, or a
\* completed its period and b opens a later one.
Follows(a, b) ==
    \/ a.kind = "none" /\ b.kind = "FFTResult"
    \/ a.kind = "FFTResult" /\ b.kind = "RMSLevels" /\ b.start = a.start
    \/ a.kind = "RMSLevels" /\ b.kind = "FFTResult" /\ b.start > a.start

\* Each data message of q may come after its predecessor, the first after a.
InOrderAfter(a, q) ==
    LET d == SelectSeq(q, IsData) IN
    \A i \in 1..Len(d) : Follows(IF i = 1 THEN a ELSE d[i - 1], d[i])

\* C11: messages reach the consumer in the order the Executor produced
\* them: what update() was handed last, what waits for update(), what waits
\* in the channel and what the Executor has still to send form one sequence
\* in which period starts strictly increase and both messages of a period
\* come before any message of a later period.
C11_PeriodsInOrder ==
    /\ InOrderAfter(observed.last, ui_queue \o msgs \o out)
    /\ InOrderAfter(emitted.last, msgs \o out)

\* update() was handed both messages of two periods at least.
C11_Witness ==
    /\ observed.data >= 4 /\ observed.last.kind = "RMSLevels"
    /\ observed.last.start >= periods.period_len
    /\ ui_queue # <<>> /\ msgs # <<>> /\ out # <<>>

\* The starts of the periods that next() returns while next_period_end goes
\* from `from` to `to`.
DrainedStarts(from, to) ==
    {s \in (from - periods.period_len)..(to - periods.period_len - 1) :
        (s - (from - periods.period_len)) % periods.period_stride = 0}

\* The number of messages of kind k for the period starting at s in q.
MessagesFor(q, k, s) ==
    Cardinality({i \in 1..Len(q) : q[i].kind = k /\ q[i].start = s})

\* Executor::process for one frame: the frame is in the WAV sink (also when
\* the push into the PeriodBuffer aborts); when it returns the frame is in
\* the buffer, no period is pending, and its result holds one FFTResult and
\* one RMSLevels for each period drained and nothing else.
C12_ProcessStep ==
    exec_log'.reads # exec_log.reads =>
        /\ wav_len' = wav_len + cb_samples * periods.buffer.channels
        /\ exec_pc' # "panicked" =>
              /\ periods'.buffer.sample_count = periods.buffer.sample_count + cb_samples
              /\ ~has_next(periods')
              /\ LET starts == DrainedStarts(periods.next_period_end,
                                             periods'.next_period_end)
                 IN  /\ Len(out') = 2 * Cardinality(starts)
                     /\ \A s \in starts : /\ MessagesFor(out', "FFTResult", s) = 1
                                          /\ MessagesFor(out', "RMSLevels", s) = 1

\* Between frames no period is pending and every sample pushed is in the
\* WAV sink.
C12_NothingPending ==
    (Analysis /\ exec_pc # "panicked") =>
        /\ ~has_next(periods)
        /\ wav_len = periods.buffer.sample_count * periods.buffer.channels

C13_RmsTimeIsPeriodEnd ==
    \A q \in {out, msgs, ui_queue} : \A i \in 1..Len(q) :
        q[i].kind = "RMSLevels" => q[i].time = q[i].start + q[i].len

\* The time of every FFTResult is the end time of its period, and the time
\* of every RMSLevels message the start time of its period.
TimesAsComputed ==
    \A q \in {out, msgs, ui_queue} : \A i \in 1..Len(q) :
        /\ q[i].kind = "FFTResult" => q[i].time = q[i].start + q[i].len
        /\ q[i].kind = "RMSLevels" => q[i].time = q[i].start

\* ------------------------------------------------------------------------
\* Properties of playback
\* ------------------------------------------------------------------------

\* C14: fill_buffer never blocks and returns Ok(k) with k <= dst.len();
\* dst[0..k] holds the next k samples not yet delivered, in queue order and
\* across frame boundaries; k < dst.len() only when no further frame was
\* available; over successive calls no sample comes twice or is skipped.
C14_FillBufferDelivers ==
    /\ (app = "synth" /\ receiver.alive) => \A want \in 1..MaxDst : ENABLED OutputCallback(want)
    /\ last_fill.ret \in {"none", "Ok", "EndOfStream"}
    /\ last_fill.satisfied <= last_fill.want
    /\ last_fill.satisfied = Len(last_fill.data)
    /\ last_fill.data = [i \in 1..last_fill.satisfied |->
                            played - last_fill.satisfied + (i - 1)]
    /\ played <= out_pushed.samples
    /\ (last_fill.ret = "Ok" /\ last_fill.satisfied < last_fill.want) =>
          last_fill.left = 0 /\ receiver.cur_sample = -1

\* The same, for calls that end without a failed assertion: every call that
\* returns copied the next samples in order, none twice, none skipped.
FillBufferDeliversUnlessAborted ==
    /\ last_fill.satisfied <= last_fill.want
    /\ last_fill.satisfied = Len(last_fill.data)
    /\ last_fill.data = [i \in 1..last_fill.satisfied |->
                            played - last_fill.satisfied + (i - 1)]
    /\ played <= out_pushed.samples
    /\ (last_fill.ret = "Ok" /\ last_fill.satisfied < last_fill.want) =>
          last_fill.left = 0 /\ receiver.cur_sample = -1

\* A call filled its buffer from two frames, continuing an earlier call.
FillSpansFramesNever ==
    ~(last_fill.ret = "Ok" /\ last_fill.satisfied = MaxDst /\ last_fill.data[1] > 0
        /\ receiver.cur_sample = -1 /\ receiver.cur_frame.len = 1
        /\ receiver.cur_frame.first = played - 1)

\* C15: fill_buffer returns EndOfStream exactly when it needs another frame
\* and the channel is closed and empty: every frame queued before the close
\* has been copied out in full by then, and an open empty channel gives an
\* underfull count, not EndOfStream.
C15_EndOfStreamWhenDrained ==
    /\ last_fill.ret = "EndOfStream" =>
          /\ ~last_fill.tx_open /\ ~out_tx_open
          /\ last_fill.left = 0 /\ out_frames = <<>> /\ receiver.cur_sample = -1
          /\ last_fill.satisfied < last_fill.want
          /\ played = out_pushed.samples
    /\ (last_fill.ret = "Ok" /\ last_fill.satisfied < last_fill.want) =>
          last_fill.tx_open /\ last_fill.left = 0

\* EndOfStream was returned after frames queued before the close were
\* copied out, the last of them by the call that returned it.
C15_Witness ==
    /\ last_fill.ret = "EndOfStream" /\ last_fill.satisfied > 0
    /\ out_pushed.frames >= 2 /\ played = out_pushed.samples

\* ------------------------------------------------------------------------
\* Properties of Pipeline and Chain
\* ------------------------------------------------------------------------

Ticked == pipe'.ticks = pipe.ticks + 1

\* What the tick pushed to the sink, and what the sink took of it.
TickAttempted == SubSeq(pipe'.attempted, Len(pipe.attempted) + 1, Len(pipe'.attempted))
TickDelivered == SubSeq(pipe'.sink, Len(pipe.sink) + 1, Len(pipe'.sink))

ReadFails == pipe.reads >= pipe.input_len
PushRejected == \E k \in (pipe.pushes + 1)..pipe'.pushes : k \in pipe.fail_at

\* One tick: one read; on an item, one call of the step; the outputs are
\* pushed in the order yielded, each once, all of them unless a push is
\* rejected; Ok only after a successful read and only successful pushes.
C16_Tick ==
    Ticked =>
        /\ pipe'.read_attempts = pipe.read_attempts + 1
        /\ pipe'.reads = IF ReadFails THEN pipe.reads ELSE pipe.reads + 1
        /\ pipe'.step_calls = IF ReadFails THEN pipe.step_calls ELSE pipe.step_calls + 1
        /\ ~ReadFails => pipe'.last.item = pipe'.reads
        /\ pipe.step = "Identity" /\ ~ReadFails =>
              pipe'.last.yielded = << <<pipe'.last.item>> >>
        /\ \A i \in 1..Len(pipe'.last.yielded) :
              pipe'.last.yielded[i][1] = pipe'.last.item
        /\ SubSeq(pipe'.sink, 1, Len(pipe.sink)) = pipe.sink
        /\ TickDelivered = SubSeq(pipe'.last.yielded, 1, Len(TickDelivered))
        /\ (~PushRejected /\ pipe'.last.ret # "panic") => TickDelivered = pipe'.last.yielded
        /\ pipe'.last.ret = "Ok" <=> (~ReadFails /\ ~PushRejected /\ pipe'.last.ret # "panic")

\* C16: one process_once tick reads exactly one item, feeds it to the step
\* once and pushes every output the step yields, each once and in the order
\* yielded; it returns Ok only if the read and every push succeeded.
C16_OneTick == [][C16_Tick]_vars

\* A tick pushed three outputs of the second item and returned Ok.
C16_Witness ==
    /\ pipe.last.ret = "Ok" /\ pipe.reads = 2 /\ Len(pipe.last.yielded) = 3
    /\ Len(pipe.sink) > 3
    /\ SubSeq(pipe.sink, Len(pipe.sink) - 2, Len(pipe.sink)) = pipe.last.yielded

\* A failed read gives InputError with the step not called and nothing
\* pushed; a rejected push gives OutputError; neither tag stands for the
\* other failure.
C17_Tick ==
    Ticked =>
        /\ ReadFails =>
              /\ pipe'.last.ret = "InputError"
              /\ pipe'.step_calls = pipe.step_calls
              /\ pipe'.sink = pipe.sink /\ pipe'.attempted = pipe.attempted
        /\ pipe'.last.ret = "InputError" => ReadFails
        /\ PushRejected => pipe'.last.ret = "OutputError"
        /\ pipe'.last.ret = "OutputError" => ~ReadFails /\ pipe'.pushes \in pipe.fail_at

\* C17: process_once tags failures by origin: InputError for a failed read
\* (step not invoked, nothing pushed), OutputError for a failed push, and
\* the two are never confused.
C17_TaggedErrors == [][C17_Tick]_vars

\* A failed read is reported after an earlier tick had a push rejected.
C17_Witness ==
    /\ pipe.last.ret = "InputError" /\ pipe.step_calls > 0
    /\ Len(pipe.attempted) > Len(pipe.sink) /\ pipe.sink # <<>>

\* With the j-th output rejected the tick reports OutputError, outputs
\* 1..j-1 are in the sink, and nothing after the j-th is pushed; a tick
\* pushes outputs of its own item only.
C18_Tick ==
    Ticked =>
        /\ \A i \in 1..Len(TickAttempted) : TickAttempted[i][1] = pipe'.last.item
        /\ pipe'.last.ret = "OutputError" =>
              LET j == Len(TickAttempted) IN
              /\ j >= 1
              /\ TickAttempted = SubSeq(pipe'.last.yielded, 1, j)
              /\ TickDelivered = SubSeq(pipe'.last.yielded, 1, j - 1)
              /\ SubSeq(pipe'.sink, 1, Len(pipe.sink)) = pipe.sink

\* No output is pushed twice, and the sink holds pushed outputs only.
C18_AtMostOnce ==
    /\ \A i, k \in 1..Len(pipe.attempted) : i # k => pipe.attempted[i] # pipe.attempted[k]
    /\ \A i \in 1..Len(pipe.sink) :
          \E k \in 1..Len(pipe.attempted) : pipe.attempted[k] = pipe.sink[i]

\* C18: if the sink rejects the j-th output of a tick, process_once reports
\* the sink failure, outputs 1..j-1 stay delivered, and outputs j..n are
\* never pushed again, in that tick or a later one.
C18_NoRollbackNoRetry == []C18_AtMostOnce /\ [][C18_Tick]_vars

\* The sink rejected the second of three outputs, and a later tick ran.
C18_Witness ==
    /\ pipe.last.ret = "OutputError" /\ Len(pipe.last.yielded) = 3
    /\ pipe.attempted[Len(pipe.attempted)] = pipe.last.yielded[2]
    /\ pipe.sink # <<>> /\ pipe.sink[Len(pipe.sink)] = pipe.last.yielded[1]

\* A tick after the one whose second output was rejected delivered outputs.
LaterTickDeliversNever ==
    ~(pipe.last.ret = "Ok" /\ pipe.reads = 2 /\ pipe.last.yielded # <<>>
        /\ Len(pipe.attempted) > Len(pipe.sink))

\* The outputs of Chain(first, second) for input v when first yields n
\* values and second is Identity.
RECURSIVE Flatten(_)
Flatten(ss) == IF ss = <<>> THEN <<>> ELSE Head(ss) \o Flatten(Tail(ss))
ChainOutputs(v, n) ==
    Flatten([i \in 1..n |-> Identity_process(Chain_process(v, n).first_res[i])])

\* A tick of a pipeline whose step is a Chain yields the chain's outputs.
C19_Tick ==
    (Ticked /\ pipe.step = "Chain" /\ ~ReadFails) =>
        /\ pipe'.last.ret # "panic"
        /\ \E n \in 0..MaxStepOutputs :
              pipe'.last.yielded = ChainOutputs(<<pipe'.last.item>>, n)

\* C19: Chain(first, second).process(x) yields, in order, the
\* concatenation of second.process(y) over the values y that
\* first.process(x) yields; no intermediate values give no outputs.
C19_ChainConcatenates == [][C19_Tick]_vars

\* Iterating the result of Chain::process aborts.
ChainAborts ==
    (pipe.step = "Chain" /\ pipe.reads > 0) => pipe.last.ret = "panic"

\* ------------------------------------------------------------------------
\* Properties of de-interlacing
\* ------------------------------------------------------------------------

\* The last m elements of s.
Suffix(s, m) == SubSeq(s, Len(s) - m + 1, Len(s))

\* The frame a push step handed to the buffer, recovered from the step.
PushedFrame ==
    FrameOf(periods.buffer, periods.buffer.channels, periods.buffer.sample_rate,
            (periods'.buffer.sample_count - periods.buffer.sample_count)
                * periods.buffer.channels)

\* Samples k, k+c, k+2c, ... (0-based) of the frame, c its channel count.
FrameChannel(f, k) ==
    [j \in 1..(Len(f.samples) \div f.channels) |-> f.samples[k + (j - 1) * f.channels + 1]]

\* A step that pushed a frame appended to the ring of every channel k the
\* samples k, k+c, ... of the frame in order (the oldest content making
\* room), the same number for every channel.
C20_PushStep ==
    periods'.buffer # periods.buffer =>
        \A k \in Channels :
            LET got == FrameChannel(PushedFrame, k)
                all == RingContent(k) \o got
                now == as_slices(periods'.buffer.buffers[k])[1]
                          \o as_slices(periods'.buffer.buffers[k])[2]
            IN  /\ Len(got) * periods.buffer.channels = Len(PushedFrame.samples)
                /\ \A j \in 1..Len(got) :
                      got[j] = Stamp(k, periods.buffer.sample_count + (j - 1),
                                     periods.buffer.channels)
                /\ Len(now) >= Min(Len(all), periods.buffer.max_len)
                /\ Len(now) <= Len(all)
                /\ now = Suffix(all, Len(now))
                /\ now # <<>>

\* C20: pushing a frame with c channels appends sample i of the frame to
\* the ring of channel i mod c, so channel k receives samples k, k+c,
\* k+2c, ... in order and every channel receives the same number.
C20_Deinterlaced == [][C20_PushStep]_vars

\* Two channels after four interleaved samples: channel 0 holds the first
\* and third, channel 1 the second and fourth.
C20_Witness ==
    /\ periods.buffer.channels = 2 /\ periods.buffer.sample_count = 2
    /\ last_op = [op |-> "push", ret |-> "ok"]
    /\ RingContent(0) = <<0, 2>> /\ RingContent(1) = <<1, 3>>

\* ------------------------------------------------------------------------
\* Properties of SampleBuffer::push
\* ------------------------------------------------------------------------

\* sample_count is the number of samples per channel in the frames pushed.
SampleCountIsTotal == periods.buffer.sample_count = buf_log.pushed

\* No step lowers sample_count.
SampleCountGrows == periods'.buffer.sample_count >= periods.buffer.sample_count

\* C21: sample_count never decreases and, after any sequence of successful
\* pushes, is the sum over the pushed frames of samples.len() / channels,
\* also when that sum is more than max_len.
C21_SampleCountIsTotal == []SampleCountIsTotal /\ [][SampleCountGrows]_vars

\* Two channels, more samples pushed than the rings hold.
C21_Witness ==
    /\ periods.buffer.channels = 2 /\ periods.buffer.max_len = 2
    /\ buf_log.pushed = 5 /\ periods.buffer.sample_count = 5
    /\ last_op = [op |-> "push", ret |-> "ok"]

\* C22: in every reachable state, for every configured max_len, the ring
\* of every channel holds at most max_len samples.
C22_RingsBounded ==
    \A channel \in Channels :
        Len(RingContent(channel)) <= periods.buffer.max_len

\* The same for buffers constructed with max_len >= 1 (not the claim C22:
\* it leaves out the buffers on which C22 fails).
RingsBoundedPositive ==
    periods.buffer.max_len >= 1 => C22_RingsBounded

\* A step that is a call of push (every operation records itself in last_op).
PushStep == last_op'.op = "push"

\* The frame differs from the buffer in channel count or sample rate, or
\* its number of samples is not a multiple of the channel count.
Mismatched(frame, sb) ==
    \/ frame.channels # sb.channels
    \/ frame.sample_rate # sb.sample_rate
    \/ frame.len % sb.channels # 0

C23_Step ==
    (PushStep /\ Mismatched(buf_log'.frame, periods.buffer)) =>
        /\ panicked' = "push_assert"
        /\ last_op'.ret = "panic"
        /\ periods'.buffer = periods.buffer

\* C23: push of a frame whose channel count or sample rate is not the
\* buffer's, or whose number of samples is not a multiple of the channel
\* count, aborts the call (no error value is returned) with no ring and
\* not sample_count modified.
C23_MismatchAborts == [][C23_Step]_vars

\* A frame of three samples was refused by a two-channel buffer that
\* already held samples.
C23_Witness ==
    /\ panicked = "push_assert" /\ last_op = [op |-> "push", ret |-> "panic"]
    /\ periods.buffer.channels = 2 /\ periods.buffer.sample_count = 2
    /\ buf_log.frame = [channels |-> 2, sample_rate |-> periods.buffer.sample_rate, len |-> 3]
    /\ RingContent(0) = <<0, 2>> /\ RingContent(1) = <<1, 3>>

\* ------------------------------------------------------------------------
\* Properties of the sequence of periods
\* ------------------------------------------------------------------------

\* The sample numbers of the k-th Period next() returned.
PeriodSamples(k) ==
    buf_log.starts[k]..(buf_log.starts[k] + periods.period_len - 1)

\* The end (exclusive) of the last Period returned.
LastPeriodEnd == buf_log.starts[Len(buf_log.starts)] + periods.period_len

\* C24: with period_stride = period_len the periods returned tile the
\* stream: consecutive periods are adjacent and every sample number below
\* the end of the last period is in exactly one period; with
\* period_stride < period_len every period shares exactly
\* period_len - period_stride samples with the one before it.
C24_TileOrOverlap ==
    /\ periods.period_stride = periods.period_len =>
          /\ \A k \in 1..(Len(buf_log.starts) - 1) :
                buf_log.starts[k + 1] = buf_log.starts[k] + periods.period_len
          /\ buf_log.starts # <<>> =>
                \A i \in 0..(LastPeriodEnd - 1) :
                    Cardinality({k \in 1..Len(buf_log.starts) : i \in PeriodSamples(k)}) = 1
    /\ periods.period_stride < periods.period_len =>
          \A k \in 1..(Len(buf_log.starts) - 1) :
              Cardinality(PeriodSamples(k) \cap PeriodSamples(k + 1))
                  = periods.period_len - periods.period_stride

\* Three periods of two samples tile samples 0..5.
C24_Witness ==
    /\ periods.period_stride = 2 /\ periods.period_len = 2
    /\ buf_log.starts = <<0, 2, 4>>

\* Three periods of three samples, each sharing two with the one before.
OverlappingPeriodsNever ==
    ~(periods.period_stride = 1 /\ periods.period_len = 3 /\ buf_log.starts = <<0, 1, 2>>)

\* ------------------------------------------------------------------------
\* Properties of get_channel on windows that left the ring
\* ------------------------------------------------------------------------

\* The Period starts before the oldest sample the buffer retains.
AgedOut ==
    period.start_sample_num <
        periods.buffer.sample_count
            - Min(periods.buffer.sample_count, periods.buffer.max_len)

\* C25: get_channel on a Period whose start_sample_num is older than the
\* oldest retained sample aborts instead of returning samples; whenever
\* get_channel returns, its slices hold the samples requested and no other.
C25_AgedOutAborts ==
    last_op.op = "get_channel" =>
        /\ AgedOut => /\ panicked = "get_channel"
                      /\ last_op.ret = "panic"
                      /\ slices = NoSlices
        /\ last_op.ret = "ok" =>
              slices.s0 \o slices.s1 =
                  StreamSamples(slices.channel, period.start_sample_num, period.len)

\* get_channel aborted on a Period of two samples that starts one sample
\* before the oldest of the three retained.
C25_Witness ==
    /\ panicked = "get_channel" /\ last_op = [op |-> "get_channel", ret |-> "panic"]
    /\ periods.buffer.max_len = 3 /\ periods.buffer.sample_count = 5
    /\ period = [start_sample_num |-> 1, len |-> 2]

\* get_channel returned a window that straddles the end of the array.
StraddlingWindowNever ==
    ~(last_op = [op |-> "get_channel", ret |-> "ok"] /\ slices.where = "split")

\* ------------------------------------------------------------------------
\* Properties of unwrap_phase and into_folded
\* ------------------------------------------------------------------------

\* C26: for any PolarFFT, whatever its phases, applying unwrap_phase twice
\* gives what applying it once gives.
C26_UnwrapIdempotent ==
    (dsp.kind = "polar" /\ dsp.unwraps >= 2) => dsp.values = dsp.once

\* The same for a PolarFFT whose phases are the principal values in
\* (-PI, PI] that to_polar gives (not the claim C26: it leaves out the
\* phases on which C26 fails).
UnwrapIdempotentOnPrincipal ==
    (\A i \in 1..Len(dsp.given) : dsp.given[i][2] > -PI /\ dsp.given[i][2] <= PI)
        => C26_UnwrapIdempotent

\* A wrap was removed: a phase was moved by a whole turn.
UnwrapChangesNothing ==
    (dsp.kind = "polar" /\ dsp.unwraps >= 1) => dsp.values = dsp.given

OddWindowNever ==
    ~(dsp.kind = "folded" /\ Len(dsp.src) = 5 /\ dsp.values[3][1] = <<2 * dsp.src[3][1], 5>>)

\* ------------------------------------------------------------------------
\* Properties of FrameAccumulator
\* ------------------------------------------------------------------------

\* The samples first .. last handed to process, in order.
Inputs(first, last) == [i \in 1..(last - first + 1) |-> first + (i - 1)]

\* A call of process on an accumulator of frame length L >= 1: a frame
\* is returned on every L-th call since the length was set and on no
\* other call, and it holds the last L inputs in order.
C29_ProcessStep ==
    (acc'.calls = acc.calls + 1 /\ acc.fa.frame_len >= 1) =>
        /\ acc'.last.some <=> acc'.since % acc.fa.frame_len = 0
        /\ acc'.last.some =>
              acc'.last.samples = Inputs(acc'.calls - acc.fa.frame_len + 1, acc'.calls)
        /\ ~acc'.last.some => acc'.last.samples = <<>>

\* Between calls fewer than L samples are held, and the frames returned
\* followed by the samples held are the inputs in order.
C29_NothingLost ==
    acc.fa.frame_len >= 1 =>
        /\ Len(acc.fa.samples) < acc.fa.frame_len
        /\ acc.delivered \o acc.fa.samples = Inputs(1, acc.calls)

\* C29: a FrameAccumulator with frame length L >= 1 emits nothing on a call
\* of process unless it is the (m*L)-th, on which it emits one Frame with
\* the last L inputs in input order; no sample is lost, duplicated or
\* reordered, and fewer than L samples are held between calls.
C29_FramesOfL == []C29_NothingLost /\ [][C29_ProcessStep]_vars

\* The eighth call returned the second frame of four samples.
C29_Witness ==
    /\ acc.fa.frame_len = 4 /\ acc.calls = 8 /\ acc.reconfigs = 0
    /\ acc.last.some /\ acc.last.samples = <<5, 6, 7, 8>>
    /\ acc.delivered = Inputs(1, 8) /\ acc.fa.samples = <<>>

\* C30: every Frame a FrameAccumulator emits, however it was configured
\* through new and with_frame_len, has samples.len() % channels = 0.
C30_FramesWhole ==
    acc.last.some => Len(acc.last.samples) % acc.last.channels = 0

\* The same for an accumulator configured by new alone (not the claim
\* C30: it leaves out the configurations on which C30 fails).
FramesWholeFromNew ==
    acc.reconfigs = 0 => C30_FramesWhole

\* ------------------------------------------------------------------------
\* Properties of FrameReceiver
\* ------------------------------------------------------------------------

\* C33: after any sequence of received frames (frames of no samples
\* included) and fill_buffer calls, cur_sample is Some(i) only with a
\* current frame held and i < samples.len(), so that the assertion
\* start < end of next_slice_from_current never fails.
C33_CursorInFrame ==
    /\ receiver.cur_sample # -1 =>
          /\ receiver.cur_frame # NoFrame
          /\ receiver.cur_sample >= 0
          /\ receiver.cur_sample < receiver.cur_frame.len
    /\ receiver.alive

\* The same while every frame received so far had samples (not the claim
\* C33: it leaves out the frames on which C33 fails).
CursorInFrameOfSamples ==
    (receiver.cur_frame.len # 0 /\ last_fill.ret # "panic") =>
        (receiver.cur_sample # -1 =>
            receiver.cur_sample >= 0 /\ receiver.cur_sample < receiver.cur_frame.len)

\* C36: a fill_buffer call that copied k >= 1 samples into dst returns
\* Ok(k), also when it finds the channel closed later in the same call.
C36_CopiedIsReported ==
    last_fill.satisfied >= 1 =>
        /\ last_fill.ret = "Ok"
        /\ Len(last_fill.data) = last_fill.satisfied

\* A call that copied samples and then found the channel closed.
CopiedThenEndOfStreamNever ==
    ~(last_fill.satisfied >= 1 /\ last_fill.ret = "EndOfStream")

\* ------------------------------------------------------------------------
\* Properties of the shape of the slices
\* ------------------------------------------------------------------------

\* The two segments of the ring get_channel last read, and the place of
\* the live Period's window in their concatenation (0-based).
SlicedFirst == as_slices(periods.buffer.buffers[slices.channel])[1]
SlicedSecond == as_slices(periods.buffer.buffers[slices.channel])[2]
WindowAt ==
    period.start_sample_num
        - (periods.buffer.sample_count - (Len(SlicedFirst) + Len(SlicedSecond)))
Straddles == WindowAt < Len(SlicedFirst) /\ WindowAt + period.len > Len(SlicedFirst)

\* C34: the slices get_channel returns have lengths that sum to the period
\* length; slice 1 is non-empty only for a window that straddles the two
\* ring segments, slice 0 then being the tail of the first segment and
\* slice 1 the head of the second; a window wholly in either segment is
\* slice 0, with slice 1 empty.
C34_SliceShape ==
    slices # NoSlices =>
        /\ Len(slices.s0) + Len(slices.s1) = period.len
        /\ slices.s1 # <<>> <=> Straddles
        /\ Straddles =>
              /\ slices.s0 # <<>>
              /\ slices.s0 = SubSeq(SlicedFirst, Len(SlicedFirst) - Len(slices.s0) + 1,
                                    Len(SlicedFirst))
              /\ slices.s1 = SubSeq(SlicedSecond, 1, Len(slices.s1))
        /\ ~Straddles =>
              /\ slices.s1 = <<>>
              /\ slices.s0 = SubSeq(SlicedFirst \o SlicedSecond,
                                    WindowAt + 1, WindowAt + period.len)

\* A window wholly in the second segment came back as slice 0.
C34_Witness ==
    /\ slices # NoSlices /\ period.len >= 2
    /\ SlicedSecond # <<>> /\ WindowAt >= Len(SlicedFirst)
    /\ slices.s0 = SubSeq(SlicedSecond, WindowAt - Len(SlicedFirst) + 1,
                          WindowAt - Len(SlicedFirst) + period.len)
    /\ slices.s1 = <<>>

\* ------------------------------------------------------------------------
\* Properties of the time series
\* ------------------------------------------------------------------------

\* What into_timeseries yields for the slices get_channel last returned.
Timeseries ==
    collect(into_timeseries(ChannelPeriod(slices.s0, slices.s1, periods.buffer, period)))

\* The pairs (instant, sample) of the live Period's window, in order.
PeriodSeries ==
    [k \in 1..period.len |->
        <<Instant_from_sample_num(period.start_sample_num + (k - 1),
                                  periods.buffer.sample_rate),
          Stamp(slices.channel, period.start_sample_num + (k - 1),
                periods.buffer.channels)>>]

\* C32: the time series of a ChannelPeriod has exactly len items, the k-th
\* being (instant of sample start_sample_num + k, k-th sample of the
\* period), also when the period is split across the two ring segments.
C32_TimeseriesIsThePeriod == slices # NoSlices => Timeseries = PeriodSeries

\* For a period that lies in one segment the time series is the period.
UnsplitTimeseriesIsThePeriod ==
    (slices # NoSlices /\ slices.where # "split") => Timeseries = PeriodSeries

\* The time series of a split period stops short: it has fewer than len
\* items, and starts with slice 0 correctly stamped.
SplitTimeseriesStopsShort ==
    (slices # NoSlices /\ slices.where = "split") =>
        /\ Len(Timeseries) < period.len
        /\ SubSeq(Timeseries, 1, Len(slices.s0)) = SubSeq(PeriodSeries, 1, Len(slices.s0))

\* ------------------------------------------------------------------------
\* Properties of IteratorInput
\* ------------------------------------------------------------------------

\* The samples of the i-th whole frame of the iterator 0, 1, .., N - 1.
WholeFrame(i) ==
    [k \in 1..iter_in.frame_len |-> (i - 1) * iter_in.frame_len + (k - 1)]

\* C31: over a finite iterator of N samples with frame length L, the
\* successive calls return floor(N / L) frames, each of exactly L
\* consecutive samples in iterator order, and from then on every call
\* reports the end of the stream (StreamEnded from next, None from
\* try_next); no frame with fewer than L samples is ever returned.
C31_WholeFramesThenEnded ==
    iter_in.frame_len >= 1 =>
        \A i \in 1..Len(iter_in.log) :
            IF i <= iter_in.total \div iter_in.frame_len
            THEN /\ iter_in.log[i].ret = "Ok"
                 /\ iter_in.log[i].frame.some
                 /\ iter_in.log[i].frame.channels = 1
                 /\ iter_in.log[i].frame.samples = WholeFrame(i)
            ELSE /\ iter_in.log[i].ret =
                        (IF iter_in.log[i].op = "next" THEN "StreamEnded" ELSE "None")
                 /\ ~iter_in.log[i].frame.some

\* Two whole frames were returned, the samples left over did not make a
\* frame, and next() reported StreamEnded twice.
C31_Witness ==
    /\ iter_in.frame_len >= 2
    /\ iter_in.total \div iter_in.frame_len = 2
    /\ iter_in.total % iter_in.frame_len # 0
    /\ Len(iter_in.log) = 4
    /\ \A i \in 1..4 : iter_in.log[i].op = "next"
    /\ iter_in.log[3].ret = "StreamEnded" /\ iter_in.log[4].ret = "StreamEnded"

\* With frame length 0 every call returns an empty frame and the end of
\* the stream is never reported.
ZeroLengthFramesNeverEnd ==
    iter_in.frame_len = 0 =>
        \A i \in 1..Len(iter_in.log) :
            iter_in.log[i].ret = "Ok" /\ iter_in.log[i].frame.samples = <<>>

\* ------------------------------------------------------------------------
\* Properties of PipelineExecutor
\* ------------------------------------------------------------------------

\* The commands applied are the first ones sent, in the order sent, each
\* once, and no two in the same tick.
CommandsInOrderOnce ==
    /\ Len(pexec.applied) <= pexec.sent
    /\ \A i \in 1..Len(pexec.applied) :
          /\ pexec.applied[i].cmd = i
          /\ i > 1 => pexec.applied[i].tick > pexec.applied[i - 1].tick

\* C35: run applies the commands in the order sent, each exactly once and
\* at most one per tick, and its loop is left only after the command
\* channel was closed and every command sent before the close was applied.
C35_CommandsThenExit ==
    /\ CommandsInOrderOnce
    /\ pexec.pc \in {"exited", "panicked"} =>
          /\ ~pexec.tx_open
          /\ Len(pexec.applied) = pexec.sent

\* The loop is left through its break only after the close, with every
\* command applied.
BreakOnlyAfterClose ==
    pexec.pc = "exited" => ~pexec.tx_open /\ Len(pexec.applied) = pexec.sent

\* With a step other than Chain, a source that has an item for every tick
\* and a sink that takes every frame, the thread does not die.
HealthyPipelineNeverPanics ==
    (pipe.step # "Chain" /\ pipe.input_len >= MaxTicks /\ pipe.fail_at = {}) =>
        pexec.pc # "panicked"

\* ------------------------------------------------------------------------
\* Properties of the push-then-drain loop
\* ------------------------------------------------------------------------

\* Every frame pushed so far had at most max_len - period_len + 1 samples
\* per channel.
FramesWithinRetention ==
    draining.largest <= periods.buffer.max_len - periods.period_len + 1

\* C37 as stated: in the push-then-drain loop with stride >= 1, if every
\* pushed frame carries at most max_len - period_len + 1 samples per
\* channel, the retention assertion never fails and every drained period's
\* get_channel succeeds.
C37_LoopNeverAborts ==
    (periods.period_stride >= 1 /\ FramesWithinRetention) =>
        panicked \notin {"retention_assert", "get_channel"}

\* C37, for periods of at least one sample: in the push-then-drain loop
\* with stride >= 1 and period_len >= 1, if every pushed frame carries at
\* most max_len - period_len + 1 samples per channel, the retention
\* assertion never fails and every drained period's get_channel succeeds.
C37_NonEmptyPeriodsNeverAbort ==
    (periods.period_stride >= 1 /\ periods.period_len >= 1 /\ FramesWithinRetention) =>
        panicked \notin {"retention_assert", "get_channel"}

\* Frames of exactly the largest allowed size were pushed until the rings
\* wrapped, and the periods were drained each time.
C37_Witness ==
    /\ periods.period_stride >= 1 /\ periods.period_len >= 2
    /\ draining.largest >= 1
    /\ draining.largest = periods.buffer.max_len - periods.period_len + 1
    /\ periods.buffer.sample_count > periods.buffer.max_len
    /\ periods_returned >= 2
    /\ draining.pc = "push" /\ panicked = "no"

\* With empty periods the loop aborts only in the first push, the first
\* period being pending since the buffer was made.
EmptyPeriodsAbortOnlyAtFirstPush ==
    (periods.period_stride >= 1 /\ FramesWithinRetention
        /\ panicked \in {"retention_assert", "get_channel"}) =>
        /\ periods.period_len = 0 /\ periods_returned = 0
        /\ panicked = "retention_assert"
        /\ periods.buffer.sample_count = periods.buffer.max_len + 1


\* The loop is between frames: the last next() returned None.
FullyDrained == draining.pc = "push" /\ last_op.op = "next"

\* After N samples per channel were pushed and the buffer fully drained,
\* the periods returned so far number 0 when N < period_len, and
\* floor((N - period_len) / period_stride) + 1 otherwise.
PeriodsReturnedIsTheCount ==
    (FullyDrained /\ periods.period_stride >= 1) =>
        periods_returned =
            IF periods.buffer.sample_count < periods.period_len THEN 0
            ELSE ((periods.buffer.sample_count - periods.period_len)
                      \div periods.period_stride) + 1

\* Every next() of a drain that returns a period moves the end of the
\* next period forward, towards the newest sample: the drain's measure of
\* what is left gets smaller.
DrainAdvances ==
    (draining.pc = "drain" /\ periods_returned' = periods_returned + 1) =>
        periods'.next_period_end > periods.next_period_end

\* C38: draining a PeriodBuffer always terminates, and after N samples per
\* channel were pushed and the buffer fully drained, the periods returned
\* so far number 0 when N < period_len and
\* floor((N - period_len) / period_stride) + 1 otherwise.
C38_DrainEndsWithTheCount ==
    /\ [][DrainAdvances]_vars
    /\ (draining.pc = "drain") ~> (draining.pc \in {"push", "panicked"})
    /\ []PeriodsReturnedIsTheCount

\* With a stride of at least one sample every drain ends.
PositiveStrideDrainEnds ==
    (draining.pc = "drain" /\ periods.period_stride >= 1)
        ~> (draining.pc \in {"push", "panicked"})

\* With stride 0 a period, once available, stays available: next() never
\* returns None.
ZeroStrideNeverDrained ==
    (periods.period_stride = 0 /\ periods_returned >= 1) =>
        /\ has_next(periods)
        /\ draining.pc \in {"drain", "panicked"}

\* ------------------------------------------------------------------------
\* Properties of the Executor's termination
\* ------------------------------------------------------------------------

ExecutorTerminal == exec_pc \in {"done", "panicked"}

\* The consumer goes on receiving: the window is never closed.
ConsumerReceiving == ui_pc # "exited"

\* C39: under fair scheduling, if the input source eventually closes and
\* the consumer keeps receiving from its channel, the Executor eventually
\* reaches its terminal state and the consumer eventually receives the
\* stream-closed message; the Executor does not stay blocked for ever on a
\* send while the consumer is receiving.
C39_ClosedInputEndsTheStream ==
    (<>(~input_open) /\ []ConsumerReceiving) =>
        /\ <>ExecutorTerminal
        /\ <>(emitted.closed >= 1)
        /\ []<>(exec_pc \notin {"send", "closing"})

\* The input closed with frames still queued and the Executor waiting on a
\* full consumer channel; in the end the Executor sent the closed message
\* behind the data and the consumer was handed it.
C39_Witness ==
    /\ Analysis /\ ~input_open /\ ui_pc # "exited"
    /\ exec_pc = "done" /\ exec_log.exit = "input_closed"
    /\ exec_log.closed_sent = 1 /\ exec_log.data_sent >= CHANNEL_MAX + 1
    /\ emitted.closed >= 1 /\ emitted.data = exec_log.data_sent


\* When the Executor does not abort, the closed message the consumer is
\* handed is the one the Executor sent.
OrderlyCloseIsTheExecutors ==
    (<>(~input_open) /\ []ConsumerReceiving /\ [](exec_pc # "panicked")) =>
        <>(exec_log.closed_sent = 1 /\ emitted.closed >= 1)

====
